---- MODULE Spec2Model ----
(***************************************************************************)
(* The poem pipeline of theWeightofWords: the resilient call wrapper       *)
(* (core/safe_call.py), the three stage functions and the two graphs       *)
(* (agent/graph.py), the prompt loader (core/prompt_loader.py) and the     *)
(* three entry points (core/orchestrator.py); the taste profile of the     *)
(* storage layer (core/storage.py) under concurrent connections; and the   *)
(* critique decoding of criticize_poem on arbitrary critic text.  Each of  *)
(* the three has a specification of its own: Spec, SpecTaste, SpecDecode.  *)
(*                                                                         *)
(* Texts are sequences of lexemes (one-character strings, or one string    *)
(* per JSON member for critic output).  An optional value (Python's        *)
(* Optional[T]) is <<>> when it is None and <<v>> when it holds v.         *)
(* Wall-clock values (latency_ms) and the random request_id are left out.  *)
(***************************************************************************)
EXTENDS Integers, Sequences, FiniteSets, TLC

None == <<>>
Some(v) == <<v>>
Get(o) == o[1]

Max(a, b) == IF a >= b THEN a ELSE b

-----------------------------------------------------------------------------
(* Text helpers: str.lower, the `in` substring test, str.strip, slicing.   *)

UpperToLower ==
    [A |-> "a", B |-> "b", C |-> "c", D |-> "d", E |-> "e", F |-> "f",
     G |-> "g", H |-> "h", I |-> "i", J |-> "j", K |-> "k", L |-> "l",
     M |-> "m", N |-> "n", O |-> "o", P |-> "p", Q |-> "q", R |-> "r",
     S |-> "s", T |-> "t", U |-> "u", V |-> "v", W |-> "w", X |-> "x",
     Y |-> "y", Z |-> "z"]

Lower(s) ==
    [i \in 1..Len(s) |->
        IF s[i] \in DOMAIN UpperToLower THEN UpperToLower[s[i]] ELSE s[i]]

Contains(s, k) ==
    \E i \in 0..(Len(s) - Len(k)) : SubSeq(s, i + 1, i + Len(k)) = k

Whitespace == {" ", "\n", "\t"}

Strip(s) ==
    LET keep == {i \in 1..Len(s) : s[i] \notin Whitespace}
    IN  IF keep = {} THEN <<>>
        ELSE LET lo == CHOOSE i \in keep : \A j \in keep : i <= j
                 hi == CHOOSE i \in keep : \A j \in keep : i >= j
             IN  SubSeq(s, lo, hi)

Take(s, n) == SubSeq(s, 1, IF Len(s) < n THEN Len(s) ELSE n)

-----------------------------------------------------------------------------
(* core/safe_call.py                                                       *)

TransientKeys ==
    { <<"t","i","m","e","o","u","t">>,
      <<"t","i","m","e","d"," ","o","u","t">>,
      <<"r","a","t","e"," ","l","i","m","i","t">>,
      <<"4","2","9">>,
      <<"o","v","e","r","l","o","a","d","e","d">>,
      <<"5","0","3">>,
      <<"5","0","2">>,
      <<"c","o","n","n","e","c","t","i","o","n">> }

\* An exception is [cls |-> class name, msg |-> str(e)].
_is_transient_case_sensitive(e) ==
    \E k \in TransientKeys : Contains(e.msg, k)
_is_transient(e) == \E k \in TransientKeys : Contains(Lower(e.msg), k)

\* Classes derived from Exception; `except Exception` catches these.
ExceptionClasses ==
    {"APITimeoutError", "RateLimitError", "BadRequestError", "ValueError",
     "RuntimeError", "KeyError", "ValidationError", "FileNotFoundError",
     "TypeError", "OperationalError", "InternalServerError"}

\* retry=retry_if_exception(lambda e: _is_transient(e))
ShouldRetry_always(e) == TRUE
ShouldRetry(e) == _is_transient(e)

\* stop=stop_after_attempt(3)
StopAfterAttempt == 3
Stop_late(attempt_number) == attempt_number > StopAfterAttempt
Stop(attempt_number) == attempt_number >= StopAfterAttempt

\* The outer `except Exception as e` of safe_invoke.
Catches_transient_only(e) == e.cls \in ExceptionClasses /\ _is_transient(e)
Catches(e) == e.cls \in ExceptionClasses

\* content = getattr(resp, "content", None); if content is None: str(resp)
ContentOf_no_fallback(resp) == resp.content
ContentOf(resp) ==
    IF resp.content = None THEN Some(resp.repr) ELSE resp.content

\* retry_count=max(0, retries["count"] - 1)
RetryCount(count) == Max(0, count - 1)

SafeResultOk(resp, count) ==
    [ok |-> TRUE, content |-> ContentOf(resp), error_user |-> None,
     error_debug |-> None, retry_count |-> RetryCount(count)]

\* error_debug=f"{type(e).__name__}: {e}"
ErrorDebug(e) == <<e.cls, ":", " ">> \o e.msg

SafeResultFail_own_message(user_error, e, count) ==
    [ok |-> FALSE, content |-> None,
     error_user |-> Some("Something went wrong."),
     error_debug |-> Some(ErrorDebug(e)), retry_count |-> RetryCount(count)]
SafeResultFail(user_error, e, count) ==
    [ok |-> FALSE, content |-> None, error_user |-> Some(user_error),
     error_debug |-> Some(ErrorDebug(e)), retry_count |-> RetryCount(count)]

-----------------------------------------------------------------------------
(* agent/schemas.py and the critique decoding of agent/graph.py            *)

\* One lexeme per JSON member of a critic answer.
MemberLex ==
    [i7  |-> [field |-> "imagery_score",     value |-> 7],
     i11 |-> [field |-> "imagery_score",     value |-> 11],
     c8  |-> [field |-> "coherence_score",   value |-> 8],
     o9  |-> [field |-> "originality_score", value |-> 9],
     o0  |-> [field |-> "originality_score", value |-> 0]]

ScoreFields == {"imagery_score", "coherence_score", "originality_score"}
ScoreMin == 1
ScoreMax == 10

\* The text is one JSON object: "{" members "}", whitespace allowed around.
IsJSONObject(t) ==
    LET s == Strip(t)
    IN  /\ Len(s) >= 2
        /\ s[1] = "{"
        /\ s[Len(s)] = "}"
        /\ \A i \in 2..(Len(s) - 1) :
              s[i] \in (DOMAIN MemberLex) \cup Whitespace

\* Value of a member of the object, the last occurrence winning.
MemberValue(t, f) ==
    LET s == Strip(t)
        at == {i \in 2..(Len(s) - 1) :
                 s[i] \in DOMAIN MemberLex /\ MemberLex[s[i]].field = f}
    IN  IF at = {} THEN None
        ELSE LET last == CHOOSE i \in at : \A j \in at : i >= j
             IN  Some(MemberLex[s[last]].value)

\* The fields of a Critique candidate [field -> score or None] that fail:
\* Field(..., ge=1, le=10) is required and range-checked.
CritiqueErrors_lower_bound_only(cand) ==
    {f \in ScoreFields : cand[f] = None \/ Get(cand[f]) < ScoreMin}
CritiqueErrors(cand) ==
    {f \in ScoreFields :
        \/ cand[f] = None
        \/ Get(cand[f]) < ScoreMin
        \/ Get(cand[f]) > ScoreMax}

\* Critique(**cand): [ok, value, errors]; the list fields take their
\* default.
Critique(cand) ==
    LET errors == CritiqueErrors(cand)
    IN  IF errors # {}
        THEN [ok |-> FALSE, value |-> None, errors |-> errors]
        ELSE [ok |-> TRUE, errors |-> {},
              value |-> Some([constraint_issues |-> <<>>,
                              cliches_detected  |-> <<>>,
                              imagery_score     |-> Get(cand.imagery_score),
                              coherence_score   |-> Get(cand.coherence_score),
                              originality_score |->
                                  Get(cand.originality_score),
                              suggestions       |-> <<>>])]

\* The candidate a JSON object text holds.
CandidateOf(t) == [f \in ScoreFields |-> MemberValue(t, f)]

\* TypeAdapter(Critique).validate_json(text) succeeds
ValidatesAsCritique(t) ==
    /\ IsJSONObject(t)
    /\ Critique(CandidateOf(t)).ok

\* PoemRequest: line_count: int = Field(12, ge=2, le=60);
\* reading_level: Literal["simple", "general", "advanced"] = "general";
\* theme: str is required.
LineCountDefault == 12
LineCountMin == 2
LineCountMax == 60

ReadingLevel ==
    { <<"s", "i", "m", "p", "l", "e">>,
      <<"g", "e", "n", "e", "r", "a", "l">>,
      <<"a", "d", "v", "a", "n", "c", "e", "d">> }

\* PoemRequest(**cand) for a candidate [theme, line_count, reading_level],
\* each given or None: [ok, value, errors].
PoemRequest_clamps(cand) ==
    LET n == IF cand.line_count = None THEN LineCountDefault
             ELSE Get(cand.line_count)
        line_count == IF n < LineCountMin THEN LineCountMin
                      ELSE IF n > LineCountMax THEN LineCountMax ELSE n
        reading_level == IF cand.reading_level = None
                         THEN <<"g", "e", "n", "e", "r", "a", "l">>
                         ELSE Get(cand.reading_level)
        errors == {f \in {"theme"} : cand.theme = None}
                  \cup {f \in {"reading_level"} :
                           reading_level \notin ReadingLevel}
    IN  IF errors # {}
        THEN [ok |-> FALSE, value |-> None, errors |-> errors]
        ELSE [ok |-> TRUE, errors |-> {},
              value |-> Some([theme |-> Get(cand.theme),
                              line_count |-> line_count,
                              reading_level |-> reading_level])]
PoemRequest(cand) ==
    LET line_count == IF cand.line_count = None THEN LineCountDefault
                      ELSE Get(cand.line_count)
        reading_level == IF cand.reading_level = None
                         THEN <<"g", "e", "n", "e", "r", "a", "l">>
                         ELSE Get(cand.reading_level)
        errors == {f \in {"theme"} : cand.theme = None}
                  \cup {f \in {"line_count"} :
                           line_count < LineCountMin
                              \/ line_count > LineCountMax}
                  \cup {f \in {"reading_level"} :
                           reading_level \notin ReadingLevel}
    IN  IF errors # {}
        THEN [ok |-> FALSE, value |-> None, errors |-> errors]
        ELSE [ok |-> TRUE, errors |-> {},
              value |-> Some([theme |-> Get(cand.theme),
                              line_count |-> line_count,
                              reading_level |-> reading_level])]

CritiqueOf(t) ==
    [constraint_issues |-> <<>>,
     cliches_detected  |-> <<>>,
     imagery_score     |-> Get(MemberValue(t, "imagery_score")),
     coherence_score   |-> Get(MemberValue(t, "coherence_score")),
     originality_score |-> Get(MemberValue(t, "originality_score")),
     suggestions       |-> <<>>]

\* re.search(r"\{.*\}", raw, flags=re.DOTALL): first "{" to last "}".
FallbackMatch_from_start(raw) ==
    LET closes == {i \in 1..Len(raw) : raw[i] = "}"}
    IN  IF closes = {} THEN None
        ELSE Some(SubSeq(raw, 1, CHOOSE i \in closes : \A j \in closes : i >= j))
FallbackMatch(raw) ==
    LET opens  == {i \in 1..Len(raw) : raw[i] = "{"}
        closes == {i \in 1..Len(raw) : raw[i] = "}"}
    IN  IF opens = {} \/ closes = {} THEN None
        ELSE LET a == CHOOSE i \in opens : \A j \in opens : i <= j
                 b == CHOOSE i \in closes : \A j \in closes : i >= j
             IN  IF b > a THEN Some(SubSeq(raw, a, b)) ELSE None

ParsePrefixLen == 200

\* RuntimeError(f"critic_parse_failed: {raw[:200]}")
ParseFailed_full_text(raw) ==
    [cls |-> "RuntimeError", msg |-> <<"critic_parse_failed: ">> \o raw]
ParseFailed(raw) ==
    [cls |-> "RuntimeError",
     msg |-> <<"critic_parse_failed: ">> \o Take(raw, ParsePrefixLen)]

\* validate_json(m.group(0)) outside any try: the validator's own error,
\* whose message names the model and quotes the input it rejected.
ValidationFailed(block) ==
    [cls |-> "ValidationError",
     msg |-> <<"validation error for Critique: ">> \o block]

\* Strict parse, then the fallback; [ok, critique] or [ok, exc].
DecodeCritique(raw) ==
    IF ValidatesAsCritique(raw)
    THEN [ok |-> TRUE, critique |-> CritiqueOf(raw)]
    ELSE LET m == FallbackMatch(raw)
         IN  IF m = None
             THEN [ok |-> FALSE, exc |-> ParseFailed(raw)]
             ELSE IF ValidatesAsCritique(Get(m))
                  THEN [ok |-> TRUE, critique |-> CritiqueOf(Get(m))]
                  ELSE [ok |-> FALSE, exc |-> ValidationFailed(Get(m))]

-----------------------------------------------------------------------------
(* core/prompt_loader.py                                                   *)

Stages == {"generate_poem", "criticize_poem", "revise_poem"}
PromptNames == {"generator", "critic", "reviser"}

\* required = ["generator", "critic", "reviser"]
Required == <<"generator", "critic", "reviser">>

\* A prompt block of prompts.yaml as _validate_prompt_block sees it: a
\* mapping or not, and its system and user templates, each None when the
\* key is missing or holds no string.  A template is a text whose lexemes
\* are words, whitespace and placeholders.
OkBlock ==
    [mapping |-> TRUE, system |-> Some(<<"poet">>),
     user |-> Some(<<"{theme}">>)]

\* A placeholder that no stage passes to str.format.
UnknownPlaceholder == "{mood}"

Blocks ==
    { OkBlock,
      [mapping |-> FALSE, system |-> None, user |-> None],
      [OkBlock EXCEPT !.system = Some(<<" ", "poet", "\n">>),
                      !.user = Some(<<"{theme}", " ">>)],
      [OkBlock EXCEPT !.user = Some(<<UnknownPlaceholder>>)] }
    \cup { [OkBlock EXCEPT !.system = t] :
             t \in {None, Some(<<>>), Some(<<" ", "\n">>)} }
    \cup { [OkBlock EXCEPT !.user = t] :
             t \in {None, Some(<<>>), Some(<<"\t", " ">>)} }

AllOk == [n \in PromptNames |-> OkBlock]

AllOkFile == [exists |-> TRUE, mapping |-> TRUE, blocks |-> AllOk]

\* The prompt files considered: absent, not a mapping, or a mapping in
\* which at most one block departs from a well-formed one.
PromptFiles ==
    { [exists |-> FALSE, mapping |-> FALSE, blocks |-> AllOk],
      [exists |-> TRUE,  mapping |-> FALSE, blocks |-> AllOk] }
    \cup
    { [exists |-> TRUE, mapping |-> TRUE,
       blocks |-> [AllOk EXCEPT ![n] = k]] :
         n \in PromptNames, k \in Blocks }

\* The templates of a block after validation, trimmed.
Normalized(block) ==
    [system |-> Strip(Get(block.system)), user |-> Strip(Get(block.user))]

_validate_prompt_block_no_trim(name, block) ==
    IF ~block.mapping
    THEN [ok |-> FALSE,
          exc |-> [cls |-> "ValueError",
                   msg |-> <<"Prompt '", name, "' must be a mapping">>]]
    ELSE IF block.system = None \/ Get(block.system) = <<>>
    THEN [ok |-> FALSE,
          exc |-> [cls |-> "ValueError",
                   msg |-> <<"Missing or empty prompt: ", name, ".system">>]]
    ELSE IF block.user = None \/ Get(block.user) = <<>>
    THEN [ok |-> FALSE,
          exc |-> [cls |-> "ValueError",
                   msg |-> <<"Missing or empty prompt: ", name, ".user">>]]
    ELSE [ok |-> TRUE, block |-> Normalized(block)]
_validate_prompt_block(name, block) ==
    IF ~block.mapping
    THEN [ok |-> FALSE,
          exc |-> [cls |-> "ValueError",
                   msg |-> <<"Prompt '", name, "' must be a mapping">>]]
    ELSE IF block.system = None \/ Strip(Get(block.system)) = <<>>
    THEN [ok |-> FALSE,
          exc |-> [cls |-> "ValueError",
                   msg |-> <<"Missing or empty prompt: ", name, ".system">>]]
    ELSE IF block.user = None \/ Strip(Get(block.user)) = <<>>
    THEN [ok |-> FALSE,
          exc |-> [cls |-> "ValueError",
                   msg |-> <<"Missing or empty prompt: ", name, ".user">>]]
    ELSE [ok |-> TRUE, block |-> Normalized(block)]

\* What load_prompts returns for a file that holds only valid blocks.
NormalizedPrompts(file) ==
    [n \in PromptNames |-> Normalized(file.blocks[n])]

\* load_prompts(): [ok, prompts, cache] or [ok, exc, cache]; the blocks are
\* validated in the order of `required` and the first failure is raised.
load_prompts(cache, file) ==
    LET failing == {i \in 1..Len(Required) :
                      ~_validate_prompt_block(Required[i],
                                              file.blocks[Required[i]]).ok}
    IN  IF cache # None
        THEN [ok |-> TRUE, prompts |-> Get(cache), exc |-> None,
              cache |-> cache]
        ELSE IF ~file.exists
        THEN [ok |-> FALSE, prompts |-> NormalizedPrompts(AllOkFile),
              cache |-> cache,
              exc |-> Some([cls |-> "FileNotFoundError",
                            msg |-> <<"Prompt file not found">>])]
        ELSE IF ~file.mapping
        THEN [ok |-> FALSE, prompts |-> NormalizedPrompts(AllOkFile),
              cache |-> cache,
              exc |-> Some([cls |-> "ValueError",
                            msg |-> <<"prompts.yaml must contain a mapping">>])]
        ELSE IF failing # {}
        THEN LET i == CHOOSE i \in failing : \A j \in failing : i <= j
             IN  [ok |-> FALSE, prompts |-> NormalizedPrompts(AllOkFile),
                  cache |-> cache,
                  exc |-> Some(_validate_prompt_block(
                                  Required[i], file.blocks[Required[i]]).exc)]
        ELSE [ok |-> TRUE, prompts |-> NormalizedPrompts(file),
              exc |-> None, cache |-> Some(NormalizedPrompts(file))]

-----------------------------------------------------------------------------
(* agent/graph.py: the stage functions and the two graphs                  *)

\* str.format raises KeyError for a placeholder it was given no value for.
FormatRaises(tpl) ==
    \/ \E i \in 1..Len(tpl.system) : tpl.system[i] = UnknownPlaceholder
    \/ \E i \in 1..Len(tpl.user) : tpl.user[i] = UnknownPlaceholder

\* The literal "None" that stands for absent memory text.
NoneLiteral == <<"N", "o", "n", "e">>

\* _ctx(state): the request's fields plus
\* data["user_memory"] = state.get("user_memory") or "None"
_ctx(st) ==
    [user_memory |->
        IF st.user_memory = None \/ Get(st.user_memory) = <<>>
        THEN NoneLiteral
        ELSE Get(st.user_memory)]

\* Stage functions that build their prompts from _ctx(state).
CtxStages == {"generate_poem", "revise_poem"}

PromptOf ==
    [generate_poem  |-> "generator",
     criticize_poem |-> "critic",
     revise_poem    |-> "reviser"]

\* user_error handed to safe_invoke by each stage
StageMessage ==
    [generate_poem  |-> "Could not generate a poem right now.",
     criticize_poem |-> "Could not critique the poem right now.",
     revise_poem    |-> "Could not revise the poem right now."]

StageDefaultError ==
    [generate_poem  |-> "generate_failed",
     criticize_poem |-> "critic_failed",
     revise_poem    |-> "revise_failed"]

END == "__end__"

\* full: generate -> critique -> revise; improve: critique -> revise
EntryPoint == [full |-> "generate_poem", improve |-> "criticize_poem"]

Edges_skips_critique ==
    [full    |-> [generate_poem  |-> "revise_poem",
                  criticize_poem |-> "revise_poem",
                  revise_poem    |-> END],
     improve |-> [criticize_poem |-> "revise_poem",
                  revise_poem    |-> END]]
Edges ==
    [full    |-> [generate_poem  |-> "criticize_poem",
                  criticize_poem |-> "revise_poem",
                  revise_poem    |-> END],
     improve |-> [criticize_poem |-> "revise_poem",
                  revise_poem    |-> END]]

\* raise RuntimeError(res.error_debug or "<stage>_failed")
StageError(stg, r) ==
    [cls |-> "RuntimeError",
     msg |-> IF r.error_debug = None \/ Get(r.error_debug) = <<>>
             THEN <<StageDefaultError[stg]>>
             ELSE Get(r.error_debug)]

\* Critique object and Critique.model_dump()
CritiqueObject(data) == [model |-> "Critique", data |-> data]
model_dump(c) == c.data

-----------------------------------------------------------------------------
(* core/orchestrator.py                                                    *)

Operations == {"generate_only", "generate_and_improve", "improve_again"}

\* The graph each entry point invokes.
GraphOf_all_full ==
    [generate_only        |-> "full",
     generate_and_improve |-> "full",
     improve_again        |-> "full"]
GraphOf ==
    [generate_only        |-> "full",
     generate_and_improve |-> "full",
     improve_again        |-> "improve"]

\* Parameters of each entry point's signature.
Parameters ==
    [generate_only        |-> {"llm", "req"},
     generate_and_improve |-> {"llm", "req"},
     improve_again        |-> {"llm", "req", "poem"}]

\* Arguments of a call: the caller passes user_memory= when it has memory.
Arguments(o, mem) ==
    Parameters[o] \cup (IF mem = None THEN {} ELSE {"user_memory"})

\* What the entry point puts into graph.invoke({...}).
InitialState_no_poem(o, prior, mem) ==
    [poem |-> None, critique |-> None, revised_poem |-> None,
     user_memory |-> None]
InitialState(o, prior, mem) ==
    [poem |-> IF o = "improve_again" THEN Some(prior) ELSE None,
     critique |-> None, revised_poem |-> None, user_memory |-> None]

FailMessage ==
    [generate_only        |-> "Could not generate the poem. Please try again.",
     generate_and_improve |-> "Could not improve the poem. Please try again.",
     improve_again        |-> "Could not improve again. Please try again."]

RunOutput(ok, error_user, poem, critique, revised_poem) ==
    [ok |-> ok, error_user |-> error_user, poem |-> poem,
     critique |-> critique, revised_poem |-> revised_poem]

\* critique.model_dump() if critique else None
DumpCritique(c) == IF c = None THEN None ELSE Some(model_dump(Get(c)))

SuccessEnvelope_drops_revision(o, result) ==
    CASE o = "generate_only" ->
           RunOutput(TRUE, None, result.poem, None, None)
      [] o = "generate_and_improve" ->
           RunOutput(TRUE, None, result.poem, DumpCritique(result.critique),
                     result.revised_poem)
      [] o = "improve_again" ->
           RunOutput(TRUE, None, None, DumpCritique(result.critique), None)
SuccessEnvelope(o, result) ==
    CASE o = "generate_only" ->
           RunOutput(TRUE, None, result.poem, None, None)
      [] o = "generate_and_improve" ->
           RunOutput(TRUE, None, result.poem, DumpCritique(result.critique),
                     result.revised_poem)
      [] o = "improve_again" ->
           RunOutput(TRUE, None, None, DumpCritique(result.critique),
                     result.revised_poem)

FailEnvelope_keeps_partial(o, result) ==
    RunOutput(FALSE, Some(FailMessage[o]), result.poem, None, None)
FailEnvelope(o, result) ==
    RunOutput(FALSE, Some(FailMessage[o]), None, None, None)

\* `except Exception as e` of the entry points
OrchestratorCatches(e) == e.cls \in ExceptionClasses

-----------------------------------------------------------------------------
(* core/storage.py: the taste profile (SQLiteStorage, PostgresStorage).    *)
(* avg_line_count, a float in the code, is an exact rational here; the     *)
(* timestamps created_at / updated_at are left out.                        *)

Abs(x) == IF x < 0 THEN -x ELSE x

RECURSIVE GCD(_, _)
GCD(a, b) == IF b = 0 THEN a ELSE GCD(b, a % b)

\* n / d in lowest terms, d > 0.
Rat(n, d) ==
    LET g == GCD(Abs(n), d)
    IN  [num |-> n \div g, den |-> d \div g]

RatMulInt(q, k) == Rat(q.num * k, q.den)
RatAddInt(q, k) == Rat(q.num + k * q.den, q.den)
RatDivInt(q, k) == Rat(q.num, q.den * k)

\* INSERT INTO taste_profile(user_id, total_ratings) VALUES(?,0): the
\* other columns take their DEFAULT 0.
ZeroRow_one_rating ==
    [total_ratings          |-> 1,
     prefer_rhyme_score     |-> 0,
     avg_line_count         |-> Rat(0, 1),
     reading_simple_count   |-> 0,
     reading_general_count  |-> 0,
     reading_advanced_count |-> 0,
     ending_soft_count      |-> 0,
     ending_twist_count     |-> 0,
     ending_punchline_count |-> 0,
     ending_hopeful_count   |-> 0]
ZeroRow ==
    [total_ratings          |-> 0,
     prefer_rhyme_score     |-> 0,
     avg_line_count         |-> Rat(0, 1),
     reading_simple_count   |-> 0,
     reading_general_count  |-> 0,
     reading_advanced_count |-> 0,
     ending_soft_count      |-> 0,
     ending_twist_count     |-> 0,
     ending_punchline_count |-> 0,
     ending_hopeful_count   |-> 0]

LevelSimple   == <<"s", "i", "m", "p", "l", "e">>
LevelGeneral  == <<"g", "e", "n", "e", "r", "a", "l">>
LevelAdvanced == <<"a", "d", "v", "a", "n", "c", "e", "d">>

EndSoft      == <<"s", "o", "f", "t">>
EndTwist     == <<"t", "w", "i", "s", "t">>
EndPunchline == <<"p", "u", "n", "c", "h", "l", "i", "n", "e">>
EndHopeful   == <<"h", "o", "p", "e", "f", "u", "l">>

\* x or default, for an optional text
OrElse(o, default) == IF o = None \/ Get(o) = <<>> THEN default ELSE Get(o)

\* reading_level = (request.get("reading_level") or "general").lower()
ReadingLevelOf(request) == Lower(OrElse(request.reading_level, LevelGeneral))

\* strength = rating - 3; rhyme_delta = strength if rhyme else -strength
RhymeDelta_ignores_rhyme(rating, rhyme) == rating - 3
RhymeDelta(rating, rhyme) ==
    LET strength == rating - 3
    IN  IF rhyme THEN strength ELSE -strength

\* ending = (ending_pref or "").lower().strip()
EndingOf(ending_pref) == Strip(Lower(OrElse(ending_pref, <<>>)))

\* The ending counter the tag selects, None when it selects none.
EndingColumn(ending) ==
    CASE ending = EndSoft      -> Some("ending_soft_count")
      [] ending = EndTwist     -> Some("ending_twist_count")
      [] ending = EndPunchline -> Some("ending_punchline_count")
      [] ending = EndHopeful   -> Some("ending_hopeful_count")
      [] OTHER                 -> None

\* if reading_level == "simple" ... elif "advanced" ... else general
ReadingColumn_no_default(reading_level) ==
    CASE reading_level = LevelSimple   -> Some("reading_simple_count")
      [] reading_level = LevelAdvanced -> Some("reading_advanced_count")
      [] reading_level = LevelGeneral  -> Some("reading_general_count")
      [] OTHER                         -> None
ReadingColumn(reading_level) ==
    CASE reading_level = LevelSimple   -> Some("reading_simple_count")
      [] reading_level = LevelAdvanced -> Some("reading_advanced_count")
      [] OTHER                         -> Some("reading_general_count")

\* new_avg = (prev_avg * total + line_count) / new_total
NewAvg_halves(prev_avg, total, line_count) ==
    IF total = 0 THEN Rat(line_count, 1)
    ELSE RatDivInt(RatAddInt(prev_avg, line_count), 2)
NewAvg(prev_avg, total, line_count) ==
    RatDivInt(RatAddInt(RatMulInt(prev_avg, total), line_count), total + 1)

Bump(row, col) ==
    IF col = None THEN row ELSE [row EXCEPT ![Get(col)] = @ + 1]

\* The values update_taste_profile writes, from the row it read and the
\* call's arguments [request, rating, ending_pref].
ComputeUpdate(row, call) ==
    LET request == call.request
        total == row.total_ratings
        r1 == [row EXCEPT
                 !.total_ratings = total + 1,
                 !.avg_line_count =
                     NewAvg(row.avg_line_count, total, request.line_count),
                 !.prefer_rhyme_score =
                     @ + RhymeDelta(call.rating, request.rhyme)]
        r2 == Bump(r1, ReadingColumn(ReadingLevelOf(request)))
    IN  Bump(r2, EndingColumn(EndingOf(call.ending_pref)))

ReadingOrder == <<"simple", "general", "advanced">>
EndingOrder == <<"soft", "twist", "punchline", "hopeful">>

\* max(counts, key=counts.get): the first key, in the dict's order, whose
\* count is the largest.
MaxKey_last(order, counts) ==
    LET best == {i \in 1..Len(order) :
                   \A j \in 1..Len(order) :
                      counts[order[i]] >= counts[order[j]]}
        last == CHOOSE i \in best : \A j \in best : i >= j
    IN  order[last]
MaxKey(order, counts) ==
    LET best == {i \in 1..Len(order) :
                   \A j \in 1..Len(order) : counts[order[i]] >= counts[order[j]]}
        first == CHOOSE i \in best : \A j \in best : i <= j
    IN  order[first]

\* The dict get_taste_profile returns for the row it selected.
TasteProfileOf_guess_needs_ending(row) ==
    IF row = None
    THEN [total_ratings |-> 0, prefer_rhyme_score |-> 0,
          avg_line_count |-> None, reading_level_guess |-> None,
          ending_guess |-> None]
    ELSE LET r == Get(row)
             total == r.total_ratings
             reading_counts == [simple   |-> r.reading_simple_count,
                                general  |-> r.reading_general_count,
                                advanced |-> r.reading_advanced_count]
             ending_counts == [soft      |-> r.ending_soft_count,
                               twist     |-> r.ending_twist_count,
                               punchline |-> r.ending_punchline_count,
                               hopeful   |-> r.ending_hopeful_count]
         IN  [total_ratings |-> total,
              prefer_rhyme_score |-> r.prefer_rhyme_score,
              avg_line_count |-> Some(r.avg_line_count),
              reading_level_guess |->
                  IF total > 0 THEN Some(MaxKey(ReadingOrder, reading_counts))
                  ELSE None,
              ending_guess |->
                  IF r.ending_soft_count + r.ending_twist_count
                        + r.ending_punchline_count + r.ending_hopeful_count > 0
                  THEN Some(MaxKey(EndingOrder, ending_counts))
                  ELSE None,
              reading_counts |-> reading_counts,
              ending_counts |-> ending_counts]
TasteProfileOf(row) ==
    IF row = None
    THEN [total_ratings |-> 0, prefer_rhyme_score |-> 0,
          avg_line_count |-> None, reading_level_guess |-> None,
          ending_guess |-> None]
    ELSE LET r == Get(row)
             total == r.total_ratings
             reading_counts == [simple   |-> r.reading_simple_count,
                                general  |-> r.reading_general_count,
                                advanced |-> r.reading_advanced_count]
             ending_counts == [soft      |-> r.ending_soft_count,
                               twist     |-> r.ending_twist_count,
                               punchline |-> r.ending_punchline_count,
                               hopeful   |-> r.ending_hopeful_count]
         IN  [total_ratings |-> total,
              prefer_rhyme_score |-> r.prefer_rhyme_score,
              avg_line_count |-> Some(r.avg_line_count),
              reading_level_guess |->
                  IF total > 0 THEN Some(MaxKey(ReadingOrder, reading_counts))
                  ELSE None,
              ending_guess |->
                  IF total > 0 THEN Some(MaxKey(EndingOrder, ending_counts))
                  ELSE None,
              reading_counts |-> reading_counts,
              ending_counts |-> ending_counts]

\* The statements of get_taste_profile: one SELECT, the table is as before.
GetTasteStatements_upserts(table, u) ==
    IF table[u] = None THEN [table EXCEPT ![u] = Some(ZeroRow)] ELSE table
GetTasteStatements(table, u) == table

-----------------------------------------------------------------------------
(* app.py: build_user_memory.  A text is the sequence of its lines.        *)

\* rhyme_score > 1, < -1, or neither
RhymeHint_inclusive(rhyme_score) ==
    IF rhyme_score >= 1 THEN "prefers rhyme"
    ELSE IF rhyme_score <= -1 THEN "prefers no rhyme"
    ELSE "no strong rhyme preference"
RhymeHint(rhyme_score) ==
    IF rhyme_score > 1 THEN "prefers rhyme"
    ELSE IF rhyme_score < -1 THEN "prefers no rhyme"
    ELSE "no strong rhyme preference"

\* str(int(avg_lines)) if it is a number, else "unknown"
AvgLinesStr(avg_lines) ==
    IF avg_lines = None THEN Some("unknown")
    ELSE Some(Get(avg_lines).num \div Get(avg_lines).den)

\* guess or "unknown"
GuessOrUnknown(guess) == IF guess = None THEN "unknown" ELSE Get(guess)

\* The part built from the taste profile get_taste_profile returned.
PrefsPart(taste_profile) ==
    IF taste_profile.total_ratings <= 0
    THEN <<"Preferences learned from ratings: none yet.">>
    ELSE <<"Preferences learned from ratings:",
           [hint |-> RhymeHint(taste_profile.prefer_rhyme_score)],
           [length |-> AvgLinesStr(taste_profile.avg_line_count)],
           [reading |-> GuessOrUnknown(taste_profile.reading_level_guess)],
           [ending |-> GuessOrUnknown(taste_profile.ending_guess)]>>

\* The part built from the rows list_people returned.
PeoplePart(ppl) ==
    IF ppl = <<>> THEN <<"People memory: none yet.">>
    ELSE <<"People memory:">> \o ppl

\* "\n\n".join(parts).strip() or "None"
UserMemoryText(taste_profile, include_prefs, include_people, ppl) ==
    LET parts == (IF include_prefs THEN PrefsPart(taste_profile) ELSE <<>>)
                 \o (IF include_people THEN PeoplePart(ppl) ELSE <<>>)
    IN  IF parts = <<>> THEN <<"None">> ELSE parts

\* The committed table after the with block of update_taste_profile was
\* left by an exception: the transaction is rolled back, and with it the
\* row the call may have inserted.
RolledBack_keeps_insert(table, u, inserted) ==
    IF inserted /\ table[u] = None
    THEN [table EXCEPT ![u] = Some(ZeroRow)]
    ELSE table
RolledBack(table, u, inserted) == table

\* add_rating: rating = int(rating); 1..5 or ValueError
RatingMin == 1
RatingMax == 5
RatingValid(rating) == rating >= RatingMin /\ rating <= RatingMax

-----------------------------------------------------------------------------
(* Inputs: what the model answers, what it raises, the caller's poem.      *)

PoemTexts ==
    { <<" ", "r", "o", "s", "e", "\n">>,
      <<"d", "e", "w">> }

CriticTexts ==
    { <<"{", "i7", "c8", "o9", "}">>,
      <<"p", " ", "{", "i7", "c8", "o9", "}", " ", "p">>,
      <<"p", "p">>,
      <<"p", "{", "i7", "c8", "}">>,
      <<"{", "i11", "c8", "o9", "}">> }

\* A model answer: its content attribute (None when it has none) and its
\* string form.
Responses(stg) ==
    { [content |-> Some(t), repr |-> <<"A", "I">>] :
        t \in IF stg = "criticize_poem" THEN CriticTexts ELSE PoemTexts }
    \cup { [content |-> None, repr |-> <<"o", "b", "j">>] }

AllResponses == UNION {Responses(stg) : stg \in Stages}

\* What the critic stage makes of each text safe_invoke can hand it,
\* worked out once per text.
CriticRaws ==
    { Strip(IF c = None THEN <<>> ELSE Get(c)) :
        c \in {ContentOf(resp) : resp \in AllResponses} \cup {None} }
Decoded == [raw \in CriticRaws |-> DecodeCritique(raw)]

Errors ==
    { [cls |-> "APITimeoutError",
       msg |-> <<"T", "i", "m", "e", "d", " ", "o", "u", "t">>],
      [cls |-> "RateLimitError",  msg |-> <<"4", "2", "9">>],
      [cls |-> "BadRequestError", msg |-> <<"b", "a", "d">>],
      [cls |-> "ValueError",      msg |-> <<>>],
      [cls |-> "RuntimeError",
       msg |-> <<"E", "r", "r", " ", "5", "0", "3">>],
      [cls |-> "InternalServerError", msg |-> <<"5", "0", "0">>] }

PriorPoems == { <<"d", "e", "w">> }

\* Memory text the caller may hand to an entry point.
MemoryTexts == { <<"l", "i", "k", "e", "s">> }
MemoryArgs == {None} \cup {Some(t) : t \in MemoryTexts}

\* Threads of the application server, each executing entry points.
Threads == {"t1", "t2"}

\* Errors with which a model call of a concurrent invocation fails.
RunErrors ==
    { [cls |-> "BadRequestError", msg |-> <<"b", "a", "d">>],
      [cls |-> "InternalServerError", msg |-> <<"5", "0", "0">>] }

\* Critic output handed to the decoder: an object, or long prose, between
\* two short pieces of surrounding text.
MaxWrapLen == 1
WrapLexemes == {"p", " ", "{", "}"}

RECURSIVE TextsUpTo(_, _)
TextsUpTo(alphabet, n) ==
    IF n = 0 THEN {<<>>}
    ELSE LET shorter == TextsUpTo(alphabet, n - 1)
         IN  shorter \cup {Append(t, c) : t \in shorter, c \in alphabet}

Wraps == TextsUpTo(WrapLexemes, MaxWrapLen)

\* Prose of n characters without braces.
Prose(n) == [i \in 1..n |-> IF i % 2 = 1 THEN "p" ELSE "q"]

\* How far the long texts go past the prefix the error message keeps.
MaxOver == 1

CriticBodies ==
    { <<"{", "i7", "c8", "o9", "}">>,
      <<"{", "i7", " ", "c8", "o9", "i7", "}">>,
      <<"{", "i11", "c8", "o9", "}">>,
      <<"{", "i7", "c8", "}">>,
      <<"{", "p", "}">>,
      <<"p", "q">>,
      <<>> }
    \cup { Prose(ParsePrefixLen + d) : d \in (-1)..MaxOver }
    \cup { <<"{">> \o Prose(ParsePrefixLen + MaxOver) \o <<"}">> }

DecodeInputs ==
    { [prefix |-> a, body |-> b, suffix |-> c] :
        a \in Wraps, b \in CriticBodies, c \in Wraps }

\* Candidates handed to the two model constructors: values up to
\* MaxOutside beyond each end of the allowed range.
MaxOutside == 2

LineCountArgs == (LineCountMin - MaxOutside)..(LineCountMax + MaxOutside)
ScoreArgs == (ScoreMin - MaxOutside)..(ScoreMax + MaxOutside)

PoemCandidates ==
    { [theme |-> th, line_count |-> lc, reading_level |-> rl] :
        th \in {None, Some(<<"s", "e", "a">>)},
        lc \in {None} \cup {Some(n) : n \in LineCountArgs},
        rl \in {None, Some(<<"s", "i", "m", "p", "l", "e">>),
                Some(<<"p", "o", "e", "t", "i", "c">>)} }

CritiqueCandidates ==
    [ScoreFields -> {None} \cup {Some(n) : n \in ScoreArgs}]

SchemaInputs ==
    { [model |-> "PoemRequest", cand |-> c] : c \in PoemCandidates }
    \cup { [model |-> "Critique", cand |-> c] : c \in CritiqueCandidates }

\* Storage users and the connections (one per call in flight).
Users == {"u1", "u2"}
Procs == {"p1", "p2"}

Backends == {"sqlite", "postgres"}

\* Arguments of update_taste_profile calls: request, rating, ending_pref.
TasteCalls ==
    { [request |-> [rhyme |-> TRUE, line_count |-> 10,
                    reading_level |-> Some(LevelSimple)],
       rating |-> 5, ending_pref |-> None],
      [request |-> [rhyme |-> FALSE, line_count |-> 20,
                    reading_level |-> None],
       rating |-> 1, ending_pref |-> Some(EndSoft)],
      [request |-> [rhyme |-> TRUE, line_count |-> 20,
                    reading_level |-> Some(<<"A", "d", "v", "a", "n", "c",
                                             "e", "d">>)],
       rating |-> 3, ending_pref |-> Some(<<" ", "T", "w", "i", "s", "t",
                                            " ">>)],
      [request |-> [rhyme |-> FALSE, line_count |-> 11,
                    reading_level |-> Some(<<"p", "o", "e", "t", "i", "c">>)],
       rating |-> 6, ending_pref |-> Some(<<"a", "b", "r", "u", "p", "t">>)],
      [request |-> [rhyme |-> TRUE, line_count |-> 10,
                    reading_level |-> Some(LevelGeneral)],
       rating |-> 4, ending_pref |-> Some(EndHopeful)] }

\* Arguments of build_user_memory, with the rows list_people returns.
MemoryOptions ==
    { [include_prefs |-> TRUE,  include_people |-> FALSE, ppl |-> <<>>],
      [include_prefs |-> FALSE, include_people |-> FALSE, ppl |-> <<>>],
      [include_prefs |-> TRUE,  include_people |-> TRUE,
       ppl |-> <<"- Ada (friend)">>],
      [include_prefs |-> FALSE, include_people |-> TRUE, ppl |-> <<>>] }

\* Ratings handed to add_rating.
RatingArgs == {0, 4, 6}

\* Storage calls made in a behaviour.
MaxCalls == 3
\* Rows of the ratings table.
MaxRows == 1

-----------------------------------------------------------------------------
(* State                                                                   *)

VARIABLES
    promptFile,      \* prompts/prompts.yaml as found on disk
    _PROMPT_CACHE,   \* prompt_loader._PROMPT_CACHE
    op,              \* entry point being executed, None when idle
    pc,              \* "idle", "node", "run", "resume", "returned"
    stage,           \* graph node being executed
    state,           \* AgentState of the run
    count,           \* retries["count"] of the running safe_invoke
    attempt_number,  \* tenacity's attempt number of the running safe_invoke
    fnLog,           \* outcomes of fn() in the current safe_invoke
    sexit,           \* how the last safe_invoke left: returned or raised
    res,             \* SafeResult returned to the stage
    calls,           \* stages whose llm.invoke was called in this run
    failedStage,     \* stage at which the run failed, None otherwise
    ret,             \* what the entry point handed to its caller
    callerMemory,    \* memory text the caller passed to the entry point
    ctxLog,          \* user_memory of each _ctx(state) built in this run
    started,         \* the stage functions entered in this run, each with
                     \* the poem it found in the state
    callerPoem,      \* poem text the caller passed to improve_again
    backend,         \* storage backend get_storage() chose
    taste,           \* committed taste_profile table: user -> row or None
    ratings,         \* committed ratings table
    txn,             \* per connection: the update_taste_profile in flight
    dbLock,          \* SQLite's write lock: the connection holding it
    event,           \* last storage call that returned, with its result
    nCalls,          \* update_taste_profile calls started so far
    serial,          \* the committed calls applied one after another
    hist,            \* per user: committed calls, their line counts and
                     \* signed strengths summed
    overlapped,      \* per user: two of its updates were in flight at once
    decIn,           \* critic output under decoding, as [prefix, body, suffix]
    decPc,           \* position in the decoding: strict, fallback, done
    decVia,          \* the parse that produced the outcome
    decOut,          \* outcome of the decoding, None before it ends
    schIn,           \* candidate handed to a model constructor
    schOut,          \* what the constructor answered, None before it ran
    runs,            \* per thread: the entry-point invocation it executes
    pair,            \* a SQLite and a Postgres store given the same calls
    app              \* the Streamlit session showing the rating forms

pipeVars ==
    <<promptFile, _PROMPT_CACHE, op, pc, stage, state, count, attempt_number,
      fnLog, sexit, res, calls, failedStage, ret, callerMemory, ctxLog,
      started, callerPoem>>

tasteVars ==
    <<backend, taste, ratings, txn, dbLock, event, nCalls, serial, hist,
      overlapped>>

decVars == <<decIn, decPc, decVia, decOut>>

schVars == <<schIn, schOut>>

runVars == <<runs>>

pairVars == <<pair>>

appVars == <<app>>

vars == <<pipeVars, tasteVars, decVars, schVars, runVars, pairVars, appVars>>

EmptyState ==
    [poem |-> None, critique |-> None, revised_poem |-> None,
     user_memory |-> None]

NoRet == [kind |-> "none", out |-> None, exc |-> None]
Returned(out) == [kind |-> "returned", out |-> Some(out), exc |-> None]
Raised(e) == [kind |-> "raised", out |-> None, exc |-> Some(e)]

IdleTxn ==
    [pc |-> "idle", user |-> "", call |-> None, inserted |-> FALSE,
     row |-> None]

NoEvent ==
    [op |-> "none", user |-> "", rating |-> 0, status |-> "none",
     value |-> None]

EmptyHist == [n |-> 0, sumLines |-> 0, rhymeSum |-> 0]

\* An empty store of the given backend, no call in flight.
StoreInit(b) ==
    /\ backend = b
    /\ taste = [u \in Users |-> None]
    /\ ratings = <<>>
    /\ txn = [p \in Procs |-> IdleTxn]
    /\ dbLock = None
    /\ event = NoEvent
    /\ nCalls = 0
    /\ serial = [u \in Users |-> None]
    /\ hist = [u \in Users |-> EmptyHist]
    /\ overlapped = [u \in Users |-> FALSE]

\* No entry point is running, the prompt cache is empty.
PipeInit(file) ==
    /\ promptFile = file
    /\ _PROMPT_CACHE = None
    /\ op = None
    /\ pc = "idle"
    /\ stage = None
    /\ state = EmptyState
    /\ count = 0
    /\ attempt_number = 0
    /\ fnLog = <<>>
    /\ sexit = "none"
    /\ res = None
    /\ calls = <<>>
    /\ failedStage = None
    /\ ret = NoRet
    /\ callerMemory = None
    /\ ctxLog = <<>>
    /\ started = <<>>
    /\ callerPoem = None

\* No critic output is being decoded on its own.
DecodeIdle ==
    /\ decIn = [prefix |-> <<>>, body |-> <<>>, suffix |-> <<>>]
    /\ decPc = "idle"
    /\ decVia = "none"
    /\ decOut = None

\* No model is being constructed on its own.
SchemaIdle ==
    /\ schIn = [model |-> "none", cand |-> None]
    /\ schOut = None

\* A thread that executes no entry point.
IdleRun ==
    [op |-> None, pc |-> "idle", prior |-> None, prompts |-> None,
     stage |-> None, state |-> EmptyState, mine |-> EmptyState,
     seen |-> <<>>, exc |-> None, ret |-> NoRet]

\* No thread executes an entry point.
RunsIdle == runs = [t \in Threads |-> IdleRun]

\* Two empty stores, one of each backend, no call made on them yet.
EmptyPair ==
    [sqlite   |-> [u \in Users |-> None],
     postgres |-> [u \in Users |-> None],
     call     |-> "none",
     ret      |-> [sqlite |-> None, postgres |-> None],
     n        |-> 0]

PairIdle == pair = EmptyPair

\* A session that shows its versions, none rated, no form submitted.
FreshSession ==
    [pc |-> "form", label |-> None, rating |-> 0, ending |-> None,
     rated |-> {}, added |-> FALSE, updated |-> FALSE, shown |-> "none",
     submits |-> 0]

AppIdle == app = FreshSession

Init ==
    /\ \E file \in PromptFiles : PipeInit(file)
    /\ StoreInit("sqlite")
    /\ DecodeIdle
    /\ SchemaIdle
    /\ RunsIdle
    /\ PairIdle
    /\ AppIdle

\* graph.invoke raised e inside the entry point's try block.
GraphRaised(o, e) ==
    IF OrchestratorCatches(e)
    THEN Returned(FailEnvelope(o, state))
    ELSE Raised(e)

\* An entry point is called: the call binds its arguments (an argument
\* that is no parameter raises TypeError), then setup_logger(),
\* _graphs(llm), and the graph is started on {"request": req} (and "poem"
\* for improve_again).
Invoke(o, prior, mem) ==
    /\ pc = "idle"
    /\ IF ~(Arguments(o, mem) \subseteq Parameters[o])
       THEN /\ pc' = "returned"
            /\ stage' = None
            /\ ret' = Raised([cls |-> "TypeError",
                              msg |-> <<"unexpected keyword argument">>])
            /\ state' = EmptyState
            /\ UNCHANGED _PROMPT_CACHE
       ELSE LET lp == load_prompts(_PROMPT_CACHE, promptFile)
            IN  /\ _PROMPT_CACHE' = lp.cache
                /\ state' = InitialState(o, prior, mem)
                /\ IF lp.ok
                   THEN /\ pc' = "node"
                        /\ stage' = Some(EntryPoint[GraphOf[o]])
                        /\ ret' = NoRet
                   ELSE /\ pc' = "returned"
                        /\ stage' = None
                        /\ ret' = Raised(Get(lp.exc))
    /\ op' = Some(o)
    /\ callerMemory' = mem
    /\ callerPoem' = IF o = "improve_again" THEN Some(prior) ELSE None
    /\ ctxLog' = <<>>
    /\ started' = <<>>
    /\ count' = 0
    /\ attempt_number' = 0
    /\ fnLog' = <<>>
    /\ sexit' = "none"
    /\ res' = None
    /\ calls' = <<>>
    /\ failedStage' = None
    /\ UNCHANGED <<promptFile, tasteVars, decVars, schVars, runVars,
                   pairVars, appVars>>

\* A stage function starts: it formats its templates and enters
\* safe_invoke; an unknown placeholder makes str.format raise KeyError.
NodeStart ==
    /\ pc = "node"
    /\ LET stg == Get(stage)
           tpl == Get(_PROMPT_CACHE)[PromptOf[stg]]
       IN  IF FormatRaises(tpl)
           THEN /\ pc' = "returned"
                /\ failedStage' = stage
                /\ ret' = GraphRaised(Get(op),
                              [cls |-> "KeyError", msg |-> <<"placeholder">>])
                /\ UNCHANGED <<count, attempt_number, fnLog, sexit, res>>
           ELSE /\ pc' = "run"
                /\ count' = 0
                /\ attempt_number' = 1
                /\ fnLog' = <<>>
                /\ sexit' = "none"
                /\ res' = None
                /\ UNCHANGED <<failedStage, ret>>
    /\ ctxLog' = IF Get(stage) \in CtxStages
                 THEN Append(ctxLog, [stage |-> Get(stage),
                                      user_memory |-> _ctx(state).user_memory])
                 ELSE ctxLog
    /\ started' = Append(started, [stage |-> Get(stage),
                                   poem |-> state.poem])
    /\ UNCHANGED <<promptFile, _PROMPT_CACHE, op, stage, state, calls,
                   callerMemory, callerPoem, tasteVars, decVars, schVars,
                   runVars, pairVars, appVars>>

\* fn() returns: _run returns, safe_invoke builds the ok result.
FnReturns(resp) ==
    /\ pc = "run"
    /\ resp \in Responses(Get(stage))
    /\ fnLog' = Append(fnLog, [kind |-> "returned", exc |-> None])
    /\ calls' = Append(calls, Get(stage))
    /\ res' = Some(SafeResultOk(resp, count))
    /\ sexit' = "returned"
    /\ pc' = "resume"
    /\ UNCHANGED <<promptFile, _PROMPT_CACHE, op, stage, state, count,
                   attempt_number, failedStage, ret, callerMemory, ctxLog,
                   started, callerPoem, tasteVars, decVars, schVars, runVars,
                   pairVars, appVars>>

\* fn() raises e: _run counts it and re-raises; tenacity retries it, or
\* re-raises it into safe_invoke's except clause.
FnRaises(e) ==
    /\ pc = "run"
    /\ fnLog' = Append(fnLog, [kind |-> "raised", exc |-> Some(e)])
    /\ calls' = Append(calls, Get(stage))
    /\ count' = count + 1
    /\ IF ShouldRetry(e) /\ ~Stop(attempt_number)
       THEN /\ attempt_number' = attempt_number + 1
            /\ UNCHANGED <<pc, res, sexit, failedStage, ret>>
       ELSE /\ UNCHANGED attempt_number
            /\ IF Catches(e)
               THEN /\ res' = Some(SafeResultFail(StageMessage[Get(stage)],
                                                  e, count'))
                    /\ sexit' = "returned"
                    /\ pc' = "resume"
                    /\ UNCHANGED <<failedStage, ret>>
               ELSE /\ res' = None
                    /\ sexit' = "raised"
                    /\ pc' = "returned"
                    /\ failedStage' = stage
                    /\ ret' = GraphRaised(Get(op), e)
    /\ UNCHANGED <<promptFile, _PROMPT_CACHE, op, stage, state,
                   callerMemory, ctxLog, started, callerPoem, tasteVars,
                   decVars, schVars, runVars, pairVars, appVars>>

\* The graph moves on from a stage that returned its update.
Advance(newState) ==
    LET nxt == Edges[GraphOf[Get(op)]][Get(stage)]
    IN  /\ state' = newState
        /\ failedStage' = None
        /\ IF nxt = END
           THEN /\ pc' = "returned"
                /\ stage' = None
                /\ ret' = Returned(SuccessEnvelope(Get(op), newState))
           ELSE /\ pc' = "node"
                /\ stage' = Some(nxt)
                /\ ret' = NoRet

\* The stage raises e: the graph run ends, the entry point answers.
Fail_retries_stage(e) ==
    /\ pc' = "node"
    /\ failedStage' = stage
    /\ ret' = NoRet
    /\ UNCHANGED <<stage, state>>
Fail(e) ==
    /\ pc' = "returned"
    /\ failedStage' = stage
    /\ ret' = GraphRaised(Get(op), e)
    /\ UNCHANGED <<stage, state>>

\* The stage function continues with the SafeResult.
NodeResume ==
    /\ pc = "resume"
    /\ LET stg == Get(stage)
           r == Get(res)
       IN  IF ~r.ok
           THEN Fail(StageError(stg, r))
           ELSE CASE stg = "generate_poem" ->
                       Advance([state EXCEPT
                                  !.poem = Some(Strip(Get(r.content)))])
                  [] stg = "criticize_poem" ->
                       LET raw == Strip(IF r.content = None THEN <<>>
                                        ELSE Get(r.content))
                           d == Decoded[raw]
                       IN  IF d.ok
                           THEN Advance([state EXCEPT
                                  !.critique =
                                      Some(CritiqueObject(d.critique))])
                           ELSE Fail(d.exc)
                  [] stg = "revise_poem" ->
                       Advance([state EXCEPT
                                  !.revised_poem =
                                      Some(Strip(Get(r.content)))])
    /\ UNCHANGED <<promptFile, _PROMPT_CACHE, op, count, attempt_number,
                   fnLog, sexit, res, calls, callerMemory, ctxLog,
                   started, callerPoem, tasteVars, decVars, schVars, runVars,
                   pairVars, appVars>>

\* The caller has the envelope (or the exception); the run's state is
\* discarded, the prompt cache stays.
Finish ==
    /\ pc = "returned"
    /\ pc' = "idle"
    /\ op' = None
    /\ stage' = None
    /\ state' = EmptyState
    /\ count' = 0
    /\ attempt_number' = 0
    /\ fnLog' = <<>>
    /\ sexit' = "none"
    /\ res' = None
    /\ calls' = <<>>
    /\ failedStage' = None
    /\ ret' = NoRet
    /\ callerMemory' = None
    /\ callerPoem' = None
    /\ ctxLog' = <<>>
    /\ started' = <<>>
    /\ UNCHANGED <<promptFile, _PROMPT_CACHE, tasteVars, decVars, schVars,
                   runVars, pairVars, appVars>>

Next ==
    \/ \E o \in Operations, prior \in PriorPoems, mem \in MemoryArgs :
          Invoke(o, prior, mem)
    \/ NodeStart
    \/ \E resp \in AllResponses : FnReturns(resp)
    \/ \E e \in Errors : FnRaises(e)
    \/ NodeResume
    \/ Finish

Spec == Init /\ [][Next]_vars

\* llm.invoke comes back: it returns an answer or raises.
ModelCallEnds ==
    \/ \E resp \in AllResponses : FnReturns(resp)
    \/ \E e \in Errors : FnRaises(e)

\* The pipeline when the interpreter keeps running the code of a started
\* invocation and every model call comes back.
SpecLive ==
    /\ Init
    /\ [][Next]_vars
    /\ WF_vars(NodeStart)
    /\ WF_vars(ModelCallEnds)
    /\ WF_vars(NodeResume)

-----------------------------------------------------------------------------
(* The storage calls.  update_taste_profile runs as one transaction of     *)
(* three statements on a connection of its own; calls on different         *)
(* connections interleave between statements.                              *)

Others(p) == Procs \ {p}

InFlight(p) == txn[p].pc # "idle"

Returns(o, u, rating, status, value) ==
    [op |-> o, user |-> u, rating |-> rating, status |-> status,
     value |-> value]

\* rating - 3 counted for a rhyming request and against a non-rhyming one.
SignedStrength(call) ==
    IF call.request.rhyme THEN call.rating - 3 ELSE 3 - call.rating

Recorded(h, call) ==
    [n        |-> h.n + 1,
     sumLines |-> h.sumLines + call.request.line_count,
     rhymeSum |-> h.rhymeSum + SignedStrength(call)]

\* update_taste_profile(user_id, request, rating, ending_pref) is called:
\* the argument handling of its first lines, then _connect().
StartUpdate(p, u, call) ==
    /\ ~InFlight(p)
    /\ nCalls < MaxCalls
    /\ nCalls' = nCalls + 1
    /\ txn' = [txn EXCEPT ![p] = [IdleTxn EXCEPT !.pc = "insert",
                                                 !.user = u,
                                                 !.call = Some(call)]]
    /\ overlapped' =
         IF \E q \in Others(p) : InFlight(q) /\ txn[q].user = u
         THEN [overlapped EXCEPT ![u] = TRUE]
         ELSE overlapped
    /\ UNCHANGED <<backend, taste, ratings, dbLock, event, serial, hist,
                   pipeVars, decVars, schVars, runVars, pairVars, appVars>>

\* INSERT ... ON CONFLICT(user_id) DO NOTHING.  On SQLite the statement
\* opens the transaction and takes the database's write lock, whether or
\* not it inserts.  On Postgres it inserts when no committed row exists,
\* after waiting for a connection that has inserted the row and not yet
\* committed; an existing row is left alone and not locked.
InsertRow(p) ==
    LET u == txn[p].user
    IN  /\ txn[p].pc = "insert"
        /\ IF backend = "sqlite"
           THEN /\ dbLock = None
                /\ dbLock' = Some(p)
           ELSE /\ \A q \in Others(p) :
                       ~(InFlight(q) /\ txn[q].user = u /\ txn[q].inserted)
                /\ UNCHANGED dbLock
        /\ txn' = [txn EXCEPT ![p].pc = "select",
                              ![p].inserted = (taste[u] = None)]
        /\ UNCHANGED <<backend, taste, ratings, event, nCalls, serial, hist,
                       overlapped, pipeVars, decVars, schVars, runVars,
                       pairVars, appVars>>

\* SQLite: the write lock stayed with another connection for the whole
\* busy timeout; the INSERT raises OperationalError("database is locked")
\* and the with block rolls back.
Busy(p) ==
    /\ backend = "sqlite"
    /\ txn[p].pc = "insert"
    /\ dbLock # None
    /\ txn' = [txn EXCEPT ![p] = IdleTxn]
    /\ event' = Returns("update_taste_profile", txn[p].user,
                        Get(txn[p].call).rating, "OperationalError", None)
    /\ UNCHANGED <<backend, taste, ratings, dbLock, nCalls, serial, hist,
                   overlapped, pipeVars, decVars, schVars, runVars, pairVars,
                   appVars>>

\* A statement after the INSERT raises (the connection is lost, the disk
\* fails): the exception leaves the with block, which rolls back.
Abort(p) ==
    LET u == txn[p].user
    IN  /\ txn[p].pc \in {"select", "update"}
        /\ taste' = RolledBack(taste, u, txn[p].inserted)
        /\ dbLock' = IF backend = "sqlite" THEN None ELSE dbLock
        /\ txn' = [txn EXCEPT ![p] = IdleTxn]
        /\ event' = Returns("update_taste_profile", u,
                            Get(txn[p].call).rating, "OperationalError",
                            None)
        /\ UNCHANGED <<backend, ratings, nCalls, serial, hist, overlapped,
                       pipeVars, decVars, schVars, runVars, pairVars,
                       appVars>>

\* SELECT total_ratings, ... WHERE user_id=?: the row this connection
\* inserted, or the committed one.
SelectRow(p) ==
    LET u == txn[p].user
    IN  /\ txn[p].pc = "select"
        /\ txn' = [txn EXCEPT
                     ![p].pc = "update",
                     ![p].row = IF txn[p].inserted THEN Some(ZeroRow)
                                ELSE taste[u]]
        /\ UNCHANGED <<backend, taste, ratings, dbLock, event, nCalls,
                       serial, hist, overlapped, pipeVars, decVars, schVars,
                       runVars, pairVars, appVars>>

\* The new values are computed from the selected row, UPDATE writes them
\* all, and the transaction commits; the call returns None.
UpdateRow(p) ==
    LET u == txn[p].user
        call == Get(txn[p].call)
    IN  /\ txn[p].pc = "update"
        /\ taste' = [taste EXCEPT
                       ![u] = Some(ComputeUpdate(Get(txn[p].row), call))]
        /\ dbLock' = IF backend = "sqlite" THEN None ELSE dbLock
        /\ txn' = [txn EXCEPT ![p] = IdleTxn]
        /\ event' = Returns("update_taste_profile", u, call.rating, "ok",
                            None)
        /\ serial' = [serial EXCEPT
                        ![u] = Some(ComputeUpdate(
                                      IF @ = None THEN ZeroRow ELSE Get(@),
                                      call))]
        /\ hist' = [hist EXCEPT ![u] = Recorded(@, call)]
        /\ UNCHANGED <<backend, ratings, nCalls, overlapped, pipeVars,
                       decVars, schVars, runVars, pairVars, appVars>>

\* get_taste_profile(user_id)
GetTasteProfile(u) ==
    /\ nCalls < MaxCalls
    /\ nCalls' = nCalls + 1
    /\ taste' = GetTasteStatements(taste, u)
    /\ event' = Returns("get_taste_profile", u, 0, "ok",
                        Some(TasteProfileOf(taste[u])))
    /\ UNCHANGED <<backend, ratings, txn, dbLock, serial, hist, overlapped,
                   pipeVars, decVars, schVars, runVars, pairVars, appVars>>

\* build_user_memory(storage, user_id, include_prefs, include_people):
\* reads the taste profile and the people rows it is asked to include.
BuildUserMemory(u, o) ==
    /\ nCalls < MaxCalls
    /\ nCalls' = nCalls + 1
    /\ taste' = IF o.include_prefs THEN GetTasteStatements(taste, u)
                ELSE taste
    /\ event' = Returns("build_user_memory", u, 0, "ok",
                        Some([include_prefs |-> o.include_prefs,
                              text |-> UserMemoryText(
                                           TasteProfileOf(taste[u]),
                                           o.include_prefs,
                                           o.include_people, o.ppl)]))
    /\ UNCHANGED <<backend, ratings, txn, dbLock, serial, hist, overlapped,
                   pipeVars, decVars, schVars, runVars, pairVars, appVars>>

\* add_rating(user_id, ..., rating, ...): the range test, then one INSERT
\* into ratings in a transaction of its own.
AddRating(u, rating) ==
    /\ nCalls < MaxCalls
    /\ nCalls' = nCalls + 1
    /\ IF ~RatingValid(rating)
       THEN /\ event' = Returns("add_rating", u, rating, "ValueError", None)
            /\ UNCHANGED ratings
       ELSE IF backend = "sqlite" /\ dbLock # None
       THEN /\ event' = Returns("add_rating", u, rating, "OperationalError",
                                None)
            /\ UNCHANGED ratings
       ELSE /\ Len(ratings) < MaxRows
            /\ ratings' = Append(ratings, [user_id |-> u, rating |-> rating])
            /\ event' = Returns("add_rating", u, rating, "ok",
                                Some(Len(ratings) + 1))
    /\ UNCHANGED <<backend, taste, txn, dbLock, serial, hist, overlapped,
                   pipeVars, decVars, schVars, runVars, pairVars, appVars>>

\* An empty store of either backend; the pipeline is idle.
InitTaste ==
    /\ PipeInit(AllOkFile)
    /\ \E b \in Backends : StoreInit(b)
    /\ DecodeIdle
    /\ SchemaIdle
    /\ RunsIdle
    /\ PairIdle
    /\ AppIdle

NextTaste ==
    \/ \E p \in Procs, u \in Users, call \in TasteCalls : StartUpdate(p, u, call)
    \/ \E p \in Procs : InsertRow(p)
    \/ \E p \in Procs : Busy(p)
    \/ \E p \in Procs : Abort(p)
    \/ \E p \in Procs : SelectRow(p)
    \/ \E p \in Procs : UpdateRow(p)
    \/ \E u \in Users : GetTasteProfile(u)
    \/ \E u \in Users, o \in MemoryOptions : BuildUserMemory(u, o)
    \/ \E u \in Users, rating \in RatingArgs : AddRating(u, rating)

SpecTaste == InitTaste /\ [][NextTaste]_vars

-----------------------------------------------------------------------------
(* The critique decoding of criticize_poem on its own, for any critic text *)

\* raw = (res.content or "").strip()
Raw == Strip(decIn.prefix \o decIn.body \o decIn.suffix)

\* try: TypeAdapter(Critique).validate_json(raw)
StrictParse ==
    /\ decPc = "strict"
    /\ IF ValidatesAsCritique(Raw)
       THEN /\ decOut' = Some(DecodeCritique(Raw))
            /\ decVia' = "strict"
            /\ decPc' = "done"
       ELSE /\ decPc' = "fallback"
            /\ UNCHANGED <<decOut, decVia>>
    /\ UNCHANGED <<decIn, pipeVars, tasteVars, schVars, runVars, pairVars,
                   appVars>>

\* except Exception: re.search, then raise or validate_json(m.group(0))
FallbackParse ==
    /\ decPc = "fallback"
    /\ decOut' = Some(DecodeCritique(Raw))
    /\ decVia' = "fallback"
    /\ decPc' = "done"
    /\ UNCHANGED <<decIn, pipeVars, tasteVars, schVars, runVars, pairVars,
                   appVars>>

InitDecode ==
    /\ PipeInit(AllOkFile)
    /\ StoreInit("sqlite")
    /\ decIn \in DecodeInputs
    /\ decPc = "strict"
    /\ decVia = "none"
    /\ decOut = None
    /\ SchemaIdle
    /\ RunsIdle
    /\ PairIdle
    /\ AppIdle

NextDecode ==
    \/ StrictParse
    \/ FallbackParse

SpecDecode == InitDecode /\ [][NextDecode]_vars

-----------------------------------------------------------------------------
(* The constructors of agent/schemas.py on their own, for any candidate    *)

\* PoemRequest(**cand)
ConstructPoemRequest ==
    /\ schIn.model = "PoemRequest"
    /\ schOut = None
    /\ schOut' = Some(PoemRequest(schIn.cand))
    /\ UNCHANGED <<schIn, pipeVars, tasteVars, decVars, runVars, pairVars,
                   appVars>>

\* Critique(**cand)
ConstructCritique ==
    /\ schIn.model = "Critique"
    /\ schOut = None
    /\ schOut' = Some(Critique(schIn.cand))
    /\ UNCHANGED <<schIn, pipeVars, tasteVars, decVars, runVars, pairVars,
                   appVars>>

InitSchema ==
    /\ PipeInit(AllOkFile)
    /\ StoreInit("sqlite")
    /\ DecodeIdle
    /\ schIn \in SchemaInputs
    /\ schOut = None
    /\ RunsIdle
    /\ PairIdle
    /\ AppIdle

NextSchema ==
    \/ ConstructPoemRequest
    \/ ConstructCritique

SpecSchema == InitSchema /\ [][NextSchema]_vars

-----------------------------------------------------------------------------
(* Entry points invoked from several threads at once.  Each invocation     *)
(* has its own AgentState; the prompt cache is the module-level state the  *)
(* invocations share.  A stage is one step here: safe_invoke hands it the  *)
(* SafeResult of its model call.                                           *)

\* What safe_invoke may hand to a stage.
WrapperResults(stg) ==
    {SafeResultOk(resp, 0) : resp \in Responses(stg)}
    \cup {SafeResultFail(StageMessage[stg], e, 1) : e \in RunErrors}

\* What a stage function does with the SafeResult: it raises, or returns
\* the update of one key of the state.
StageReturn(stg, r) ==
    IF ~r.ok
    THEN [ok |-> FALSE, exc |-> StageError(stg, r)]
    ELSE CASE stg = "generate_poem" ->
                [ok |-> TRUE,
                 update |-> [key |-> "poem",
                             value |-> Strip(Get(r.content))]]
           [] stg = "criticize_poem" ->
                LET raw == Strip(IF r.content = None THEN <<>>
                                 ELSE Get(r.content))
                    d == DecodeCritique(raw)
                IN  IF d.ok
                    THEN [ok |-> TRUE,
                          update |-> [key |-> "critique",
                                      value |-> CritiqueObject(d.critique)]]
                    ELSE [ok |-> FALSE, exc |-> d.exc]
           [] stg = "revise_poem" ->
                [ok |-> TRUE,
                 update |-> [key |-> "revised_poem",
                             value |-> Strip(Get(r.content))]]

\* The graph merges a stage's update into the state of the run.
Merge(st, update) == [st EXCEPT ![update.key] = Some(update.value)]

\* The state a stage function of thread t is called with: the dict that
\* graph.invoke made for this invocation.
OwnState_shared(rs, t) ==
    LET u == CHOOSE u \in Threads : u # t
    IN  IF rs[u].pc = "idle" THEN rs[t].state ELSE rs[u].state
OwnState(rs, t) == rs[t].state

\* `except Exception as e` of an entry point around graph.invoke.
OnException_shows_error(o, e, result) ==
    IF OrchestratorCatches(e)
    THEN Returned(RunOutput(FALSE, Some(e.cls), None, None, None))
    ELSE Raised(e)
OnException(o, e, result) ==
    IF OrchestratorCatches(e)
    THEN Returned(FailEnvelope(o, result))
    ELSE Raised(e)

\* Thread t calls entry point o (with the poem prior for improve_again).
Call(t, o, prior) ==
    /\ runs[t].pc = "idle"
    /\ runs' = [runs EXCEPT ![t] =
                   [IdleRun EXCEPT
                      !.op = Some(o),
                      !.pc = "load",
                      !.prior = IF o = "improve_again" THEN Some(prior)
                                ELSE None]]
    /\ UNCHANGED <<pipeVars, tasteVars, decVars, schVars, pairVars, appVars>>

\* graph.invoke starts the run of thread t with the prompts it was given.
Started(r, prompts) ==
    LET o == Get(r.op)
        st == InitialState(o, IF r.prior = None THEN <<>> ELSE Get(r.prior),
                           None)
    IN  [r EXCEPT !.pc = "node",
                  !.prompts = Some(prompts),
                  !.stage = Some(EntryPoint[GraphOf[o]]),
                  !.state = st,
                  !.mine = st]

\* load_prompts reads the cache: a filled cache is returned as it is.
LoadRead(t) ==
    /\ runs[t].pc = "load"
    /\ runs' = [runs EXCEPT ![t] =
                   IF _PROMPT_CACHE # None
                   THEN Started(runs[t], Get(_PROMPT_CACHE))
                   ELSE [runs[t] EXCEPT !.pc = "validate"]]
    /\ UNCHANGED <<pipeVars, tasteVars, decVars, schVars, pairVars, appVars>>

\* load_prompts, having found the cache empty, reads and validates the
\* file and stores the result in the cache, or raises.
LoadStore(t) ==
    /\ runs[t].pc = "validate"
    /\ LET lp == load_prompts(None, promptFile)
       IN  IF lp.ok
           THEN /\ _PROMPT_CACHE' = lp.cache
                /\ runs' = [runs EXCEPT ![t] = Started(runs[t], lp.prompts)]
           ELSE /\ UNCHANGED _PROMPT_CACHE
                /\ runs' = [runs EXCEPT ![t] =
                               [runs[t] EXCEPT
                                  !.pc = "returned",
                                  !.exc = lp.exc,
                                  !.ret = Raised(Get(lp.exc))]]
    /\ UNCHANGED <<promptFile, op, pc, stage, state, count, attempt_number,
                   fnLog, sexit, res, calls, failedStage, ret, callerMemory,
                   ctxLog, started, callerPoem, tasteVars, decVars, schVars,
                   pairVars, appVars>>

\* The stage of thread t runs: it formats its templates, gets the
\* SafeResult r from safe_invoke and returns its update or raises; the
\* graph merges the update and moves on, or the entry point answers.
RunStage(t, r) ==
    LET run == runs[t]
        o == Get(run.op)
        stg == Get(run.stage)
        st == OwnState(runs, t)
    IN  /\ run.pc = "node"
        /\ r \in WrapperResults(stg)
        /\ IF FormatRaises(Get(run.prompts)[PromptOf[stg]])
           THEN LET e == [cls |-> "KeyError", msg |-> <<"placeholder">>]
                IN  runs' = [runs EXCEPT ![t] =
                                [run EXCEPT !.pc = "returned",
                                            !.exc = Some(e),
                                            !.ret = OnException(o, e, st)]]
           ELSE LET sr == StageReturn(stg, r)
                IN  IF ~sr.ok
                    THEN runs' = [runs EXCEPT ![t] =
                                    [run EXCEPT
                                       !.pc = "returned",
                                       !.seen = Append(run.seen, r),
                                       !.exc = Some(sr.exc),
                                       !.ret = OnException(o, sr.exc, st)]]
                    ELSE LET nxt == Edges[GraphOf[o]][stg]
                             newState == Merge(st, sr.update)
                         IN  runs' = [runs EXCEPT ![t] =
                                [run EXCEPT
                                   !.pc = IF nxt = END THEN "returned"
                                          ELSE "node",
                                   !.stage = IF nxt = END THEN None
                                             ELSE Some(nxt),
                                   !.state = newState,
                                   !.mine = Merge(run.mine, sr.update),
                                   !.seen = Append(run.seen, r),
                                   !.ret = IF nxt = END
                                           THEN Returned(
                                                  SuccessEnvelope(o, newState))
                                           ELSE NoRet]]
        /\ UNCHANGED <<pipeVars, tasteVars, decVars, schVars, pairVars,
                       appVars>>

InitRuns ==
    /\ \E file \in PromptFiles : PipeInit(file)
    /\ StoreInit("sqlite")
    /\ DecodeIdle
    /\ SchemaIdle
    /\ RunsIdle
    /\ PairIdle
    /\ AppIdle

NextRuns ==
    \/ \E t \in Threads, o \in Operations, prior \in PriorPoems :
          Call(t, o, prior)
    \/ \E t \in Threads : LoadRead(t)
    \/ \E t \in Threads : LoadStore(t)
    \/ \E t \in Threads :
          \E r \in UNION {WrapperResults(stg) : stg \in Stages} :
             RunStage(t, r)

SpecRuns == InitRuns /\ [][NextRuns]_vars

-----------------------------------------------------------------------------
(* The taste profile of both backends, each given the same calls one      *)
(* after another.  SQLiteStorage reads its row by column name             *)
(* (sqlite3.Row); PostgresStorage gets a tuple, unpacks it by position    *)
(* and, in get_taste_profile, zips it with the cursor's column names.     *)

\* The SELECT list of update_taste_profile, which is also the order of
\* the columns in CREATE TABLE and in the UPDATE's SET list.
ProfileColumns ==
    <<"total_ratings", "prefer_rhyme_score", "avg_line_count",
      "reading_simple_count", "reading_general_count",
      "reading_advanced_count", "ending_soft_count", "ending_twist_count",
      "ending_punchline_count", "ending_hopeful_count">>

\* INSERT ... ON CONFLICT(user_id) DO NOTHING on a connection of its own.
Upsert(table, u) ==
    IF table[u] = None THEN [table EXCEPT ![u] = Some(ZeroRow)] ELSE table

\* SQLiteStorage.update_taste_profile with no other connection at work.
SqliteUpdate(table, u, call) ==
    LET t == Upsert(table, u)
    IN  [t EXCEPT ![u] = Some(ComputeUpdate(Get(t[u]), call))]

\* cur.fetchone(): the selected values in the order of the SELECT list.
Fetched(row) == [i \in 1..Len(ProfileColumns) |-> row[ProfileColumns[i]]]

\* (total, prefer_rhyme_score, avg_line_count, rs, rg, ra, es, et, ep, eh)
\* = row
Unpack_swaps_reading(t) ==
    [total |-> t[1], prefer_rhyme_score |-> t[2], avg_line_count |-> t[3],
     rs |-> t[5], rg |-> t[4], ra |-> t[6],
     es |-> t[7], et |-> t[8], ep |-> t[9], eh |-> t[10]]
Unpack(t) ==
    [total |-> t[1], prefer_rhyme_score |-> t[2], avg_line_count |-> t[3],
     rs |-> t[4], rg |-> t[5], ra |-> t[6],
     es |-> t[7], et |-> t[8], ep |-> t[9], eh |-> t[10]]

\* The parameters PostgresStorage hands to its UPDATE, in their order.
PostgresParams(t, call) ==
    LET v == Unpack(t)
        request == call.request
        reading_level == ReadingLevelOf(request)
        ending == EndingOf(call.ending_pref)
        new_total == v.total + 1
        new_avg == NewAvg(v.avg_line_count, v.total, request.line_count)
        new_rhyme_score ==
            v.prefer_rhyme_score + RhymeDelta(call.rating, request.rhyme)
        rs == IF reading_level = LevelSimple THEN v.rs + 1 ELSE v.rs
        ra == IF reading_level = LevelSimple THEN v.ra
              ELSE IF reading_level = LevelAdvanced THEN v.ra + 1 ELSE v.ra
        rg == IF reading_level = LevelSimple THEN v.rg
              ELSE IF reading_level = LevelAdvanced THEN v.rg ELSE v.rg + 1
        es == IF ending = EndSoft THEN v.es + 1 ELSE v.es
        et == IF ending # EndSoft /\ ending = EndTwist
              THEN v.et + 1 ELSE v.et
        ep == IF ending \notin {EndSoft, EndTwist} /\ ending = EndPunchline
              THEN v.ep + 1 ELSE v.ep
        eh == IF ending \notin {EndSoft, EndTwist, EndPunchline}
                 /\ ending = EndHopeful
              THEN v.eh + 1 ELSE v.eh
    IN  <<new_total, new_rhyme_score, new_avg, rs, rg, ra, es, et, ep, eh>>

\* UPDATE taste_profile SET total_ratings=%s, ...: the i-th parameter goes
\* to the i-th column of the SET list.
Written(params) ==
    [c \in {ProfileColumns[i] : i \in 1..Len(ProfileColumns)} |->
        params[CHOOSE i \in 1..Len(ProfileColumns) : ProfileColumns[i] = c]]

\* PostgresStorage.update_taste_profile with no other connection at work.
PostgresUpdate(table, u, call) ==
    LET t == Upsert(table, u)
    IN  [t EXCEPT
           ![u] = Some(Written(PostgresParams(Fetched(Get(t[u])), call)))]

\* SQLiteStorage.get_taste_profile
SqliteGet(table, u) == TasteProfileOf(table[u])

\* PostgresStorage.get_taste_profile: data = dict(zip(cols, row))
PostgresGet(table, u) ==
    IF table[u] = None THEN TasteProfileOf(None)
    ELSE TasteProfileOf(Some(Written(Fetched(Get(table[u])))))

\* Calls made on the pair of stores in a behaviour.
MaxSeq == 3

\* update_taste_profile(u, ...) on both stores.
BothUpdate(u, call) ==
    /\ pair.n < MaxSeq
    /\ pair' = [sqlite   |-> SqliteUpdate(pair.sqlite, u, call),
                postgres |-> PostgresUpdate(pair.postgres, u, call),
                call     |-> "update_taste_profile",
                ret      |-> [sqlite |-> None, postgres |-> None],
                n        |-> pair.n + 1]
    /\ UNCHANGED <<pipeVars, tasteVars, decVars, schVars, runVars, appVars>>

\* get_taste_profile(u) on both stores.
BothGet(u) ==
    /\ pair.n < MaxSeq
    /\ pair' = [pair EXCEPT
                  !.call = "get_taste_profile",
                  !.ret = [sqlite   |-> Some(SqliteGet(pair.sqlite, u)),
                           postgres |-> Some(PostgresGet(pair.postgres, u))],
                  !.n = @ + 1]
    /\ UNCHANGED <<pipeVars, tasteVars, decVars, schVars, runVars, appVars>>

InitBackends ==
    /\ PipeInit(AllOkFile)
    /\ StoreInit("sqlite")
    /\ DecodeIdle
    /\ SchemaIdle
    /\ RunsIdle
    /\ PairIdle
    /\ AppIdle

NextBackends ==
    \/ \E u \in Users, call \in TasteCalls : BothUpdate(u, call)
    \/ \E u \in Users : BothGet(u)

SpecBackends == InitBackends /\ [][NextBackends]_vars

-----------------------------------------------------------------------------
(* Properties of the resilient call wrapper                                *)

Invocations == Len(fnLog)

RaisedAt(i) == fnLog[i].kind = "raised"
TransientAt(i) == RaisedAt(i) /\ _is_transient(Get(fnLog[i].exc))
NonTransientAt(i) == RaisedAt(i) /\ ~_is_transient(Get(fnLog[i].exc))

\* safe_invoke has been entered and left in the current stage.
SafeInvokeLeft == fnLog # <<>> /\ pc # "run"

IsSafeResult(r) ==
    /\ DOMAIN r = {"ok", "content", "error_user", "error_debug",
                   "retry_count"}
    /\ r.ok \in BOOLEAN
    /\ r.retry_count \in Nat

\* C1: whatever the unit of work does (returns, raises transient or
\* non-transient errors, in any order), safe_invoke leaves by returning a
\* SafeResult and never by propagating an exception.
C1_AlwaysReturnsSafeResult ==
    /\ sexit # "raised"
    /\ SafeInvokeLeft =>
          /\ sexit = "returned"
          /\ res # None
          /\ IsSafeResult(Get(res))

\* C1 witness: two transient errors then a non-transient one, answered
\* with a failed SafeResult.
C1_Witness ==
    /\ pc = "resume"
    /\ Invocations = 3
    /\ TransientAt(1) /\ TransientAt(2) /\ NonTransientAt(3)
    /\ ~Get(res).ok

\* C2: retry_count of every returned result is the number of invocations
\* of the unit of work minus 1, floored at 0 (two transient errors then a
\* success give retry_count = 2).
C2_RetryCountIsInvocationsMinusOne ==
    pc = "resume" => Get(res).retry_count = Max(0, Invocations - 1)

\* C3: a non-transient error is the last invocation of the unit of work
\* and gives ok = false; a unit of work that only raises non-transient
\* errors is invoked exactly once.
C3_NonTransientAbortsAtOnce ==
    /\ \A i \in 1..Invocations :
          NonTransientAt(i) =>
             /\ i = Invocations
             /\ pc # "run"
             /\ res # None
             /\ ~Get(res).ok
    /\ (SafeInvokeLeft /\ \A i \in 1..Invocations : NonTransientAt(i))
          => Invocations = 1

\* C3 witness: the non-transient error comes on the second attempt.
C3_Witness ==
    /\ pc = "resume"
    /\ Invocations = 2
    /\ TransientAt(1)
    /\ NonTransientAt(2)
    /\ ~Get(res).ok

\* C4: the unit of work is invoked at most 3 times; when every attempt
\* raised a transient error it was invoked exactly 3 times and the result
\* is ok = false.
C4_AtMostThreeAttempts ==
    /\ Invocations <= 3
    /\ (SafeInvokeLeft /\ \A i \in 1..Invocations : TransientAt(i))
          => /\ Invocations = 3
             /\ res # None
             /\ ~Get(res).ok

\* C4 witness: three transient errors in a row.
C4_Witness ==
    /\ pc = "resume"
    /\ Invocations = 3
    /\ \A i \in 1..3 : TransientAt(i)

\* C5: in every SafeResult, content is present iff ok, and error_user and
\* error_debug are each present iff not ok.
C5_FieldsPresentIffOk ==
    res # None =>
       LET r == Get(res)
       IN  /\ (r.content # None) <=> r.ok
           /\ (r.error_user # None) <=> ~r.ok
           /\ (r.error_debug # None) <=> ~r.ok

\* C5 witness: a successful call whose answer has no content attribute,
\* so that the content is its string form.
C5_Witness ==
    /\ pc = "resume"
    /\ Get(res).ok
    /\ Get(res).content = Some(<<"o", "b", "j">>)

-----------------------------------------------------------------------------
(* Properties of the pipeline entry points                                 *)

Envelope == Get(ret.out)

\* C6: when a stage of the run failed, the entry point returns an envelope
\* with ok = false and poem, critique and revised_poem all absent, even
\* if earlier stages succeeded.
C6_FailureReturnsNoArtifacts ==
    (pc = "returned" /\ failedStage # None) =>
       /\ ret.kind = "returned"
       /\ ~Envelope.ok
       /\ Envelope.poem = None
       /\ Envelope.critique = None
       /\ Envelope.revised_poem = None

\* C6 witness: generate_and_improve fails at CRITIQUE after GENERATE
\* stored a poem.
C6_Witness ==
    /\ pc = "returned"
    /\ op = Some("generate_and_improve")
    /\ failedStage = Some("criticize_poem")
    /\ state.poem # None
    /\ ret.kind = "returned"

\* C7: generate_only makes no CRITIQUE or REVISE model call and returns
\* ok = true with the poem whenever GENERATE succeeded.
C7_GenerateOnlyRunsGenerateAlone ==
    op = Some("generate_only") =>
       /\ \A i \in 1..Len(calls) : calls[i] = "generate_poem"
       /\ (pc = "returned" /\ state.poem # None) =>
             /\ ret.kind = "returned"
             /\ Envelope.ok
             /\ Envelope.poem = state.poem

\* The run failed at a stage whose safe_invoke returned ok = false.
WrapperFailedAt ==
    /\ failedStage # None
    /\ calls # <<>>
    /\ calls[Len(calls)] = Get(failedStage)
    /\ res # None
    /\ ~Get(res).ok

\* C8: when a run fails at a stage, error_user of the returned envelope is
\* that stage's own fallback message.
C8_StageMessageReachesCaller ==
    (pc = "returned" /\ WrapperFailedAt /\ ret.kind = "returned") =>
       Envelope.error_user = Some(StageMessage[Get(failedStage)])

\* C9: every entry point returns an envelope and never raises, also when
\* the prompt templates cannot be loaded or validated.
C9_EntryPointNeverRaises ==
    callerMemory = None => ret.kind # "raised"

Promised(o, out) ==
    CASE o = "generate_only" -> out.poem # None
      [] o = "generate_and_improve" ->
           out.poem # None /\ out.critique # None /\ out.revised_poem # None
      [] o = "improve_again" ->
           out.critique # None /\ out.revised_poem # None

\* C10: in every returned envelope error_user is present iff ok is false,
\* and the artifacts the operation promises are all present iff ok is true.
C10_EnvelopeShape ==
    ret.kind = "returned" =>
       /\ (Envelope.error_user # None) <=> ~Envelope.ok
       /\ Promised(Get(op), Envelope) <=> Envelope.ok

\* C10 witness: improve_again succeeds and returns critique and revision.
C10_Witness ==
    /\ ret.kind = "returned"
    /\ op = Some("improve_again")
    /\ Envelope.ok
    /\ Envelope.critique # None
    /\ Envelope.revised_poem # None

\* The prompt file loads, so that a run reaches its first stage.
PromptsLoad == load_prompts(None, promptFile).ok

\* C11: the memory text the caller supplies to an entry point is the text
\* GENERATE and REVISE interpolate; the literal "None" is used only when
\* the caller supplied none.
C11_SuppliedMemoryIsInterpolated ==
    /\ \A i \in 1..Len(ctxLog) :
          ctxLog[i].user_memory =
             (IF callerMemory = None THEN NoneLiteral ELSE Get(callerMemory))
    /\ (/\ pc = "returned"
        /\ callerMemory # None
        /\ PromptsLoad
        /\ Get(op) \in {"generate_only", "generate_and_improve"})
          => \E i \in 1..Len(ctxLog) :
                /\ ctxLog[i].stage = "generate_poem"
                /\ ctxLog[i].user_memory = Get(callerMemory)

\* The CRITIQUE stage's safe_invoke returned ok = true and the stage then
\* failed: its output did not decode.
DecodeFailedRun ==
    /\ failedStage = Some("criticize_poem")
    /\ calls # <<>>
    /\ calls[Len(calls)] = "criticize_poem"
    /\ res # None
    /\ Get(res).ok

\* C21: a critique decode failure fails the run with ok = false, and after
\* the wrapper returned ok = true for CRITIQUE the model is not called
\* again in that run, neither for CRITIQUE nor for REVISE.
C21_DecodeFailureIsFinal ==
    DecodeFailedRun =>
       /\ pc = "returned"
       /\ ret.kind = "returned"
       /\ ~Envelope.ok
       /\ fnLog[Len(fnLog)].kind = "returned"
       /\ \A i \in 1..Len(calls) : calls[i] # "revise_poem"

\* C21 witness: generate_and_improve ended on a critic answer that holds no
\* valid object, after a critic call that had been retried.
C21_Witness ==
    /\ DecodeFailedRun
    /\ op = Some("generate_and_improve")
    /\ pc = "returned"
    /\ ~Envelope.ok
    /\ Len(fnLog) = 2

StageOrder == <<"generate_poem", "criticize_poem", "revise_poem">>

StageIndex(stg) == CHOOSE i \in 1..Len(StageOrder) : StageOrder[i] = stg

\* The stages entered so far are the first stages of the path, each once.
StartedAlong(path) ==
    /\ Len(started) <= Len(path)
    /\ \A i \in 1..Len(started) : started[i].stage = path[i]

\* Model calls are made for the stage entered last, and in stage order.
CallsInOrder ==
    /\ \A i \in 1..Len(calls) : \E j \in 1..Len(started) :
          started[j].stage = calls[i]
    /\ \A i \in 1..Len(calls) : \A j \in i..Len(calls) :
          StageIndex(calls[i]) <= StageIndex(calls[j])

\* C26: in a generate_and_improve run the stages are entered in the order
\* GENERATE, CRITIQUE, REVISE, each at most once and only after the stage
\* before it stored its result; model calls follow that order; and once a
\* stage has failed the run is over, with no call for any later stage.
C26_FullRunOrder ==
    op = Some("generate_and_improve") =>
       /\ StartedAlong(StageOrder)
       /\ CallsInOrder
       /\ Len(started) >= 2 => state.poem # None
       /\ Len(started) >= 3 => state.critique # None
       /\ failedStage # None =>
             /\ pc = "returned"
             /\ started[Len(started)].stage = Get(failedStage)
             /\ \A i \in 1..Len(calls) :
                   StageIndex(calls[i]) <= StageIndex(Get(failedStage))

\* C26 witness: a full run succeeded with a retried call on the way.
C26_Witness ==
    /\ op = Some("generate_and_improve")
    /\ pc = "returned"
    /\ Len(started) = 3
    /\ Len(calls) > 3
    /\ ret.kind = "returned"
    /\ Envelope.ok

\* C27: improve_again never enters GENERATE: it runs CRITIQUE and then
\* REVISE, both find in the state exactly the poem the caller supplied,
\* and the run does not replace it.
C27_ImproveAgainKeepsCallerPoem ==
    op = Some("improve_again") =>
       /\ StartedAlong(<<"criticize_poem", "revise_poem">>)
       /\ \A i \in 1..Len(calls) : calls[i] # "generate_poem"
       /\ \A i \in 1..Len(started) : started[i].poem = callerPoem
       /\ pc \in {"node", "run", "resume"} => state.poem = callerPoem

\* C27 witness: improve_again succeeded after both stages ran on the
\* caller's poem.
C27_Witness ==
    /\ op = Some("improve_again")
    /\ pc = "returned"
    /\ callerPoem # None
    /\ Len(started) = 2
    /\ started[2].poem = callerPoem
    /\ ret.kind = "returned"
    /\ Envelope.ok

\* The signatures of a transient failure, as lower-case texts.
Signatures ==
    { <<"t", "i", "m", "e", "o", "u", "t">>,
      <<"t", "i", "m", "e", "d", " ", "o", "u", "t">>,
      <<"r", "a", "t", "e", " ", "l", "i", "m", "i", "t">>,
      <<"4", "2", "9">>,
      <<"o", "v", "e", "r", "l", "o", "a", "d", "e", "d">>,
      <<"5", "0", "2">>,
      <<"5", "0", "3">>,
      <<"c", "o", "n", "n", "e", "c", "t", "i", "o", "n">> }

\* Some signature occurs in the message, letter case set aside.
MatchesSignature(msg) ==
    \E k \in Signatures :
       \E i \in 1..Len(msg) :
          /\ i + Len(k) - 1 <= Len(msg)
          /\ \A j \in 1..Len(k) : Lower(<<msg[i + j - 1]>>) = <<k[j]>>

\* The unit of work was invoked again after its i-th invocation.
RetriedAt(i) == i < Invocations \/ (i = Invocations /\ pc = "run")

\* C31 as stated: a raised error is retried if and only if its message
\* matches a transient signature.
C31_RetriedIffSignatureMatches ==
    \A i \in 1..Invocations :
       RaisedAt(i) =>
          (RetriedAt(i) <=> MatchesSignature(Get(fnLog[i].exc).msg))

\* C31: an error raised on the first or second attempt is retried if and
\* only if its message contains a transient signature, matched as a
\* substring without regard to letter case; an error raised on the third
\* attempt, and an error whose message matches no signature, is never
\* retried.
C31_RetriedIffSignatureMatchesWithinLimit ==
    \A i \in 1..Invocations :
       RaisedAt(i) =>
          (RetriedAt(i) <=>
              (MatchesSignature(Get(fnLog[i].exc).msg) /\ i < 3))

\* C31 witness: "Err 503" on the first attempt was retried, "500" on the
\* second was not: the wrapper returned the failure after two invocations.
C31_Witness ==
    /\ pc = "resume"
    /\ Invocations = 2
    /\ RaisedAt(1) /\ RaisedAt(2)
    /\ Get(fnLog[1].exc).msg = <<"E", "r", "r", " ", "5", "0", "3">>
    /\ Get(fnLog[2].exc).msg = <<"5", "0", "0">>
    /\ ~Get(res).ok

\* C33: a failed SafeResult has as error_user exactly the user_error the
\* stage handed to safe_invoke, and the class name and message of the
\* exception are in error_debug ("<class>: <message>") and in no other
\* field.
C33_UserErrorIsCallersDebugHoldsCause ==
    (res # None /\ ~Get(res).ok) =>
       LET e == Get(fnLog[Len(fnLog)].exc)
       IN  /\ Get(res).error_user = Some(StageMessage[Get(stage)])
           /\ Get(res).error_debug = Some(<<e.cls, ":", " ">> \o e.msg)
           /\ Get(res).content = None
           /\ Get(res).retry_count \in Nat

\* C33 witness: the reviser's call raised "429" three times and the
\* wrapper answered with the reviser's message.
C33_Witness ==
    /\ pc = "resume"
    /\ stage = Some("revise_poem")
    /\ Invocations = 3
    /\ ~Get(res).ok
    /\ Get(res).error_user = Some("Could not revise the poem right now.")
    /\ Get(res).error_debug
          = Some(<<"RateLimitError", ":", " ", "4", "2", "9">>)

\* The template is missing, or blank once leading and trailing whitespace
\* is taken off.
LacksText(template) ==
    \/ template = None
    \/ \A i \in 1..Len(Get(template)) :
          Get(template)[i] \in {" ", "\t", "\n"}

\* The prompt file is a mapping in which some stage lacks a template.
SomeTemplateLacking ==
    /\ promptFile.exists
    /\ promptFile.mapping
    /\ \E n \in PromptNames :
          \/ LacksText(promptFile.blocks[n].system)
          \/ LacksText(promptFile.blocks[n].user)

\* C34: when the system or user template of generator, critic or reviser
\* is missing or empty after trimming, the load_prompts of an invocation
\* raises a configuration error (ValueError), the prompt cache stays
\* empty, and the invocation makes no model call.
C34_LackingTemplateFailsTheLoad ==
    SomeTemplateLacking =>
       /\ _PROMPT_CACHE = None
       /\ calls = <<>>
       /\ started = <<>>
       /\ (op # None /\ callerMemory = None) =>
             /\ pc = "returned"
             /\ ret.kind = "raised"
             /\ Get(ret.exc).cls = "ValueError"

\* C34 witness: the critic's user template is whitespace only, and
\* generate_and_improve ended on the ValueError that names it.
C34_Witness ==
    /\ promptFile.blocks["critic"].user = Some(<<"\t", " ">>)
    /\ op = Some("generate_and_improve")
    /\ pc = "returned"
    /\ ret.kind = "raised"
    /\ Get(ret.exc).msg = <<"Missing or empty prompt: ", "critic", ".user">>
    /\ _PROMPT_CACHE = None

\* C37: every started entry point comes to its return, and until then
\* generate_and_improve has called the model at most 9 times (3 stages of
\* at most 3 attempts) and improve_again at most 6 times.
C37_EntryPointsTerminate ==
    /\ [](op = Some("generate_and_improve") => Len(calls) <= 9)
    /\ [](op = Some("improve_again") => Len(calls) <= 6)
    /\ (op # None) ~> (pc = "returned")

\* C37 witness: generate_and_improve returned a revised poem after 9
\* model calls, and improve_again a failure after 6.
C37_Witness ==
    /\ pc = "returned"
    /\ ret.kind = "returned"
    /\ \/ /\ op = Some("generate_and_improve")
          /\ Len(calls) = 9
          /\ Envelope.ok
       \/ /\ op = Some("improve_again")
          /\ Len(calls) = 6
          /\ ~Envelope.ok

-----------------------------------------------------------------------------
(* app.py: rating_form(version_label, poem_text) for the versions the      *)
(* session shows.  One script run handles one submitted form; the store    *)
(* is used by this session alone.                                          *)

\* USER_ID = st.session_state["user_id"]
USER_ID == "u1"

\* Labels of the versions on the page.
VersionLabels == {"Version 1", "Version 2 (Upgraded)"}

\* STAR_OPTIONS = [1, 2, 3, 4, 5]
STAR_OPTIONS == 1..5

\* int(st.session_state[rating_key]): the radio's choices, and values from
\* outside them, which the handler itself does not test.
SessionRatings == {n \in STAR_OPTIONS : n \in {2, 5}} \cup {0, 6}

\* st.session_state[ending_key] or None
SessionEndings == {None, Some(EndTwist)}

\* req.model_dump()
AppRequest ==
    [rhyme |-> TRUE, line_count |-> 12, reading_level |-> Some(LevelGeneral)]

\* Forms submitted in a behaviour.
MaxSubmits == 3

\* The arguments the handler passes to update_taste_profile.
AppCall ==
    [request |-> AppRequest, rating |-> app.rating,
     ending_pref |-> app.ending]

\* "Submit rating" of the form of version v; the form exists only while
\* v is not in rated_versions.
Submit(v, rating, ending) ==
    /\ app.pc = "form"
    /\ v \notin app.rated
    /\ app.submits < MaxSubmits
    /\ app' = [app EXCEPT !.pc = "add_rating", !.label = Some(v),
                          !.rating = rating, !.ending = ending,
                          !.added = FALSE, !.updated = FALSE,
                          !.shown = "none", !.submits = @ + 1]
    /\ UNCHANGED <<pipeVars, tasteVars, decVars, schVars, runVars, pairVars>>

\* Where the try block goes after storage.add_rating: on to
\* update_taste_profile when it returned, to the except clause when it
\* raised.
AfterAddRating_goes_on(returned) == "update"
AfterAddRating(returned) == IF returned THEN "update" ELSE "except"

\* storage.add_rating(...): the range test, then the INSERT.
AppAddRating ==
    /\ app.pc = "add_rating"
    /\ IF RatingValid(app.rating)
       THEN /\ ratings' = Append(ratings, [user_id |-> USER_ID,
                                           rating |-> app.rating])
            /\ app' = [app EXCEPT !.pc = AfterAddRating(TRUE),
                                  !.added = TRUE]
       ELSE /\ ratings' = ratings
            /\ app' = [app EXCEPT !.pc = AfterAddRating(FALSE)]
    /\ UNCHANGED <<backend, taste, txn, dbLock, event, nCalls, serial, hist,
                   overlapped, pipeVars, decVars, schVars, runVars, pairVars>>

\* A storage call of the try block raises for a reason of the store (the
\* file is locked, the connection is lost); its transaction rolls back.
AppStorageRaises ==
    /\ app.pc \in {"add_rating", "update"}
    /\ app' = [app EXCEPT !.pc = "except"]
    /\ UNCHANGED <<pipeVars, tasteVars, decVars, schVars, runVars, pairVars>>

\* storage.update_taste_profile(...) on the backend in use.
AppUpdateTaste ==
    /\ app.pc = "update"
    /\ taste' = IF backend = "sqlite"
                THEN SqliteUpdate(taste, USER_ID, AppCall)
                ELSE PostgresUpdate(taste, USER_ID, AppCall)
    /\ app' = [app EXCEPT !.pc = "mark", !.updated = TRUE]
    /\ UNCHANGED <<backend, ratings, txn, dbLock, event, nCalls, serial,
                   hist, overlapped, pipeVars, decVars, schVars, runVars,
                   pairVars>>

\* st.session_state["rated_versions"].add(version_label); st.success(...);
\* st.rerun()
AppMarkRated ==
    /\ app.pc = "mark"
    /\ app' = [app EXCEPT !.pc = "form", !.shown = "success",
                          !.rated = @ \cup {Get(app.label)}]
    /\ UNCHANGED <<pipeVars, tasteVars, decVars, schVars, runVars, pairVars>>

\* except Exception as e: st.error(str(e))
AppShowError ==
    /\ app.pc = "except"
    /\ app' = [app EXCEPT !.pc = "form", !.shown = "error"]
    /\ UNCHANGED <<pipeVars, tasteVars, decVars, schVars, runVars, pairVars>>

InitApp ==
    /\ PipeInit(AllOkFile)
    /\ \E b \in Backends : StoreInit(b)
    /\ DecodeIdle
    /\ SchemaIdle
    /\ RunsIdle
    /\ PairIdle
    /\ AppIdle

NextApp ==
    \/ \E v \in VersionLabels, rating \in SessionRatings,
          ending \in SessionEndings : Submit(v, rating, ending)
    \/ AppAddRating
    \/ AppStorageRaises
    \/ AppUpdateTaste
    \/ AppMarkRated
    \/ AppShowError

SpecApp == InitApp /\ [][NextApp]_vars

-----------------------------------------------------------------------------
(* Properties of entry points invoked side by side                         *)

\* The invocation of thread t ended with an envelope that reports failure.
FailedRun(t) ==
    /\ runs[t].pc = "returned"
    /\ runs[t].ret.kind = "returned"
    /\ ~Get(runs[t].ret.out).ok

\* C32: two failing runs of the same entry point on the same arguments
\* return identical envelopes, whatever exception class, exception message
\* or critic text made each of them fail.
C32_FailureEnvelopeHidesCause ==
    \A t \in Threads, u \in Threads :
       (/\ FailedRun(t)
        /\ FailedRun(u)
        /\ runs[t].op = runs[u].op
        /\ runs[t].prior = runs[u].prior)
          => runs[t].ret = runs[u].ret

\* C32 witness: two generate_and_improve runs failed, one on a model call
\* that raised and one on critic text that holds an object with a score
\* out of range, and they differ in the class of the exception caught.
C32_Witness ==
    /\ FailedRun("t1")
    /\ FailedRun("t2")
    /\ runs["t1"].op = Some("generate_and_improve")
    /\ runs["t2"].op = Some("generate_and_improve")
    /\ Get(runs["t1"].exc).cls = "RuntimeError"
    /\ Get(runs["t2"].exc).cls = "ValidationError"
    /\ runs["t1"].seen # runs["t2"].seen

\* What entry point o answers when it runs alone, from its first stage stg
\* and state st, on the SafeResults seen[i], seen[i + 1], ...
RECURSIVE AloneFrom(_, _, _, _, _, _)
AloneFrom(o, prompts, stg, st, seen, i) ==
    IF stg = END THEN Returned(SuccessEnvelope(o, st))
    ELSE IF FormatRaises(prompts[PromptOf[stg]])
    THEN OnException(o, [cls |-> "KeyError", msg |-> <<"placeholder">>], st)
    ELSE IF i > Len(seen) THEN NoRet
    ELSE LET sr == StageReturn(stg, seen[i])
         IN  IF sr.ok
             THEN AloneFrom(o, prompts, Edges[GraphOf[o]][stg],
                            Merge(st, sr.update), seen, i + 1)
             ELSE OnException(o, sr.exc, st)

\* The answer of the invocation r had it been the only one in the process,
\* started on an empty prompt cache and given the same SafeResults.
RunAlone(r) ==
    LET o == Get(r.op)
        lp == load_prompts(None, promptFile)
    IN  IF ~lp.ok THEN Raised(Get(lp.exc))
        ELSE AloneFrom(o, lp.prompts, EntryPoint[GraphOf[o]],
                       InitialState(o, IF r.prior = None THEN <<>>
                                       ELSE Get(r.prior), None),
                       r.seen, 1)

\* C35: however two invocations interleave, each one's state holds only
\* what its own stages wrote (and the poem its caller passed), and what it
\* answers is what it would answer alone on the same model responses.
C35_InvocationsShareNoState ==
    \A t \in Threads :
       /\ runs[t].state = runs[t].mine
       /\ runs[t].pc = "returned" => runs[t].ret = RunAlone(runs[t])

\* C35 witness: generate_and_improve returned one poem on one thread
\* while improve_again, on the other thread, had critiqued the caller's
\* poem and was about to revise it.
C35_Witness ==
    /\ runs["t1"].op = Some("generate_and_improve")
    /\ runs["t1"].pc = "returned"
    /\ runs["t1"].ret.kind = "returned"
    /\ Get(runs["t1"].ret.out).poem = Some(<<"r", "o", "s", "e">>)
    /\ runs["t2"].op = Some("improve_again")
    /\ runs["t2"].pc = "node"
    /\ runs["t2"].stage = Some("revise_poem")
    /\ runs["t2"].state.poem = Some(<<"d", "e", "w">>)
    /\ runs["t2"].state.critique # None

-----------------------------------------------------------------------------
(* Properties of the taste profile                                         *)

Quiescent == \A p \in Procs : ~InFlight(p)

\* The step in which the update_taste_profile call of connection p returns.
UpdateReturns(p) == InFlight(p) /\ ~InFlight(p)'

\* C12: an update_taste_profile call whose rating is outside 1..5 fails,
\* and the stored taste records are after it what they were before it.
C12_OutOfRangeRatingRejected ==
    [][\A p \in Procs :
          (UpdateReturns(p) /\ ~RatingValid(Get(txn[p].call).rating))
             => (event'.status # "ok" /\ taste' = taste)]_vars

\* C13: once every update_taste_profile call has returned, each user's
\* record is the one the committed calls produce applied one after
\* another: concurrent calls on one user lose no update.
C13_ConcurrentUpdatesSerialise ==
    Quiescent => \A u \in Users : taste[u] = serial[u]

ReadingSum(r) ==
    r.reading_simple_count + r.reading_general_count
        + r.reading_advanced_count

EndingSum(r) ==
    r.ending_soft_count + r.ending_twist_count + r.ending_punchline_count
        + r.ending_hopeful_count

\* C14: in every stored taste record total_ratings is the sum of the three
\* reading counters and at least the sum of the four ending counters.
C14_CountersAddUp ==
    \A u \in Users :
       taste[u] # None =>
          /\ Get(taste[u]).total_ratings = ReadingSum(Get(taste[u]))
          /\ Get(taste[u]).total_ratings >= EndingSum(Get(taste[u]))

\* C14 witness: a record of two ratings, one with a reading level that is
\* none of the three names, only one with a known ending.
C14_Witness ==
    \E u \in Users :
       /\ taste[u] # None
       /\ Get(taste[u]).total_ratings = 2
       /\ Get(taste[u]).reading_general_count = 1
       /\ EndingSum(Get(taste[u])) = 1
       /\ event.op = "update_taste_profile"
       /\ event.rating = 6

\* The calls on u's record so far ran one after another.
Sequential(u) == ~overlapped[u]

\* C15: after n >= 1 successful calls made one after another on a user
\* without a record, total_ratings is n and avg_line_count * total_ratings
\* is the sum of the line counts passed.
C15_AverageIsExact ==
    \A u \in Users :
       (Sequential(u) /\ hist[u].n >= 1) =>
          /\ taste[u] # None
          /\ Get(taste[u]).total_ratings = hist[u].n
          /\ Get(taste[u]).avg_line_count.num * hist[u].n
                = hist[u].sumLines * Get(taste[u]).avg_line_count.den

\* C15 witness: line counts 10 and then 20 give an average of 15 over 2.
C15_Witness ==
    \E u \in Users :
       /\ Sequential(u)
       /\ hist[u].n = 2
       /\ hist[u].sumLines = 30
       /\ taste[u] # None
       /\ Get(taste[u]).total_ratings = 2
       /\ Get(taste[u]).avg_line_count = [num |-> 15, den |-> 1]
       /\ event.rating = 1

\* C16: after calls made one after another on a user without a record,
\* prefer_rhyme_score is the sum over the calls of rating - 3, counted
\* positive for a rhyming request and negative otherwise.
C16_RhymeScoreIsSignedSum ==
    \A u \in Users :
       (Sequential(u) /\ hist[u].n >= 1) =>
          /\ taste[u] # None
          /\ Get(taste[u]).prefer_rhyme_score = hist[u].rhymeSum

\* C16 witness: (rating 5, rhyme) and then (rating 1, no rhyme) give 4.
C16_Witness ==
    \E u \in Users :
       /\ Sequential(u)
       /\ hist[u].n = 2
       /\ hist[u].sumLines = 30
       /\ taste[u] # None
       /\ Get(taste[u]).prefer_rhyme_score = 4
       /\ event = Returns("update_taste_profile", u, 1, "ok", None)

\* C17: a get_taste_profile call changes no stored state, neither the
\* taste records nor the ratings.
C17_ReadChangesNothing ==
    [][(event'.op = "get_taste_profile" /\ nCalls' # nCalls)
          => (taste' = taste /\ ratings' = ratings)]_vars

\* C17 witness: get_taste_profile returned the empty profile for a user
\* who has no record, and the user still has none.
C17_Witness ==
    /\ event.op = "get_taste_profile"
    /\ taste[event.user] = None
    /\ event.value = Some(TasteProfileOf(None))
    /\ \E u \in Users : taste[u] # None

\* build_user_memory returned a text with a preferences part built from
\* u's record.
HintCase(u) ==
    /\ event.op = "build_user_memory"
    /\ event.user = u
    /\ Get(event.value).include_prefs
    /\ taste[u] # None

\* The rhyme hint of the text build_user_memory returned.
HintGiven == Get(event.value).text[2].hint

\* C24: the rhyme hint derived from a taste record is "prefers rhyme"
\* exactly when prefer_rhyme_score > 1, "prefers no rhyme" exactly when it
\* is < -1, and the no-strong-preference hint for every score in -1..1.
C24_RhymeHintThresholds ==
    \A u \in Users :
       HintCase(u) =>
          LET score == Get(taste[u]).prefer_rhyme_score
          IN  /\ (HintGiven = "prefers rhyme") <=> (score > 1)
              /\ (HintGiven = "prefers no rhyme") <=> (score < -1)
              /\ (HintGiven = "no strong rhyme preference")
                    <=> (score >= -1 /\ score <= 1)

\* C24 witness: one rating of 5 on a rhymed request, from an empty
\* profile, gives "prefers rhyme".
C24_Witness ==
    \E u \in Users :
       /\ HintCase(u)
       /\ hist[u] = [n |-> 1, sumLines |-> 10, rhymeSum |-> 2]
       /\ Get(taste[u]).prefer_rhyme_score = 2
       /\ HintGiven = "prefers rhyme"

\* The guess is a key of maximal count, the earliest such key in order.
EarliestMaximal(guess, order, counts) ==
    \E i \in 1..Len(order) :
       /\ guess = Some(order[i])
       /\ \A j \in 1..Len(order) : counts[order[j]] <= counts[order[i]]
       /\ \A j \in 1..(i - 1) : counts[order[j]] < counts[order[i]]

\* C25: get_taste_profile returns both guesses absent when total_ratings
\* is 0; when it is positive each guess is a key whose counter is maximal,
\* ties going to the earliest key of simple, general, advanced and of soft,
\* twist, punchline, hopeful.
C25_GuessesAreEarliestMaxima ==
    event.op = "get_taste_profile" =>
       LET v == Get(event.value)
       IN  IF v.total_ratings = 0
           THEN v.reading_level_guess = None /\ v.ending_guess = None
           ELSE /\ EarliestMaximal(v.reading_level_guess,
                                   <<"simple", "general", "advanced">>,
                                   v.reading_counts)
                /\ EarliestMaximal(v.ending_guess,
                                   <<"soft", "twist", "punchline", "hopeful">>,
                                   v.ending_counts)

\* C25 witness: with one general and one advanced rating, one twist and
\* one hopeful ending, the guesses are general and twist.
C25_Witness ==
    /\ event.op = "get_taste_profile"
    /\ Get(event.value).total_ratings = 2
    /\ Get(event.value).reading_counts
          = [simple |-> 0, general |-> 1, advanced |-> 1]
    /\ Get(event.value).ending_counts
          = [soft |-> 0, twist |-> 1, punchline |-> 0, hopeful |-> 1]
    /\ Get(event.value).reading_level_guess = Some("general")
    /\ Get(event.value).ending_guess = Some("twist")

\* C36: whenever get_taste_profile returns total_ratings > 0 it returns
\* an ending_guess, also when no ending preference was ever recorded: with
\* the four stored ending counters at 0 the guess is "soft".
C36_EndingGuessWithoutEndings ==
    (/\ event.op = "get_taste_profile"
     /\ Get(event.value).total_ratings > 0)
       => /\ Get(event.value).ending_guess # None
          /\ (/\ taste[event.user] # None
              /\ Get(taste[event.user]).ending_soft_count = 0
              /\ Get(taste[event.user]).ending_twist_count = 0
              /\ Get(taste[event.user]).ending_punchline_count = 0
              /\ Get(taste[event.user]).ending_hopeful_count = 0)
                => Get(event.value).ending_guess = Some("soft")

\* C36 witness: after two ratings, neither with a known ending tag, the
\* profile read back guesses "soft".
C36_Witness ==
    /\ event.op = "get_taste_profile"
    /\ Get(event.value).total_ratings = 2
    /\ Get(event.value).ending_counts
          = [soft |-> 0, twist |-> 0, punchline |-> 0, hopeful |-> 0]
    /\ Get(event.value).ending_guess = Some("soft")

ReadingCounters ==
    {"reading_simple_count", "reading_general_count",
     "reading_advanced_count"}

EndingCounters ==
    {"ending_soft_count", "ending_twist_count", "ending_punchline_count",
     "ending_hopeful_count"}

\* new is old with every step of the call applied: total_ratings + 1, the
\* signed strength added to the score, the line count folded into the
\* mean, one reading counter more, at most one ending counter more.
AllStepsApplied(old, new, call) ==
    /\ new.total_ratings = old.total_ratings + 1
    /\ new.prefer_rhyme_score = old.prefer_rhyme_score + SignedStrength(call)
    /\ new.avg_line_count.num * new.total_ratings * old.avg_line_count.den
          = (old.avg_line_count.num * old.total_ratings
               + call.request.line_count * old.avg_line_count.den)
            * new.avg_line_count.den
    /\ ReadingSum(new) = ReadingSum(old) + 1
    /\ EndingSum(new) \in {EndingSum(old), EndingSum(old) + 1}
    /\ \A c \in ReadingCounters \cup EndingCounters : new[c] >= old[c]

\* The step in which the call of connection p returns normally.
UpdateSucceeds(p) == UpdateReturns(p) /\ event'.status = "ok"

\* C28: an update_taste_profile call either applies all of its changes to
\* the record together, or fails and leaves the stored records as they
\* were; the stored records change in no other step of a call.
C28_AllOrNothing ==
    [][/\ \A p \in Procs :
            UpdateReturns(p) =>
               IF event'.status = "ok"
               THEN /\ taste'[txn[p].user] # None
                    /\ AllStepsApplied(Get(txn[p].row),
                                       Get(taste'[txn[p].user]),
                                       Get(txn[p].call))
                    /\ \A u \in Users \ {txn[p].user} : taste'[u] = taste[u]
               ELSE taste' = taste
       /\ taste' # taste => \E p \in Procs : UpdateSucceeds(p)]_vars

\* C28 witness: a call that had inserted the user's first row failed
\* afterwards, and the user has no record.
C28_Witness ==
    /\ event.op = "update_taste_profile"
    /\ event.status = "OperationalError"
    /\ taste[event.user] = None
    /\ hist[event.user].n = 0
    /\ backend = "postgres"

\* The reading counter a level names: its own for simple and advanced in
\* any letter case, the general counter for everything else.
NamedReadingCounter(reading_level) ==
    IF reading_level = None THEN "reading_general_count"
    ELSE IF Lower(Get(reading_level)) = <<"s", "i", "m", "p", "l", "e">>
    THEN "reading_simple_count"
    ELSE IF Lower(Get(reading_level))
               = <<"a", "d", "v", "a", "n", "c", "e", "d">>
    THEN "reading_advanced_count"
    ELSE "reading_general_count"

\* The record stored for u, the all-zero record when there is none yet.
StoredRow(u) == IF taste[u] = None THEN ZeroRow ELSE Get(taste[u])

\* C29: a successful update_taste_profile call adds 1 to exactly one
\* reading-level counter of the stored record, the one the request's
\* reading_level names, or the general counter when the level is unset or
\* none of simple, general, advanced; the other two stay as stored.
C29_OneReadingCounter ==
    [][\A p \in Procs :
          UpdateSucceeds(p) =>
             LET old == StoredRow(txn[p].user)
                 new == Get(taste'[txn[p].user])
                 named == NamedReadingCounter(
                              Get(txn[p].call).request.reading_level)
             IN  \A c \in ReadingCounters :
                    new[c] = IF c = named THEN old[c] + 1 ELSE old[c]]_vars

\* The ending counter a tag names once trimmed and lower-cased, None when
\* it names none.
NamedEndingCounter(ending_pref) ==
    LET tag == IF ending_pref = None THEN <<>>
               ELSE Strip(Lower(Get(ending_pref)))
    IN  IF tag = <<"s", "o", "f", "t">> THEN Some("ending_soft_count")
        ELSE IF tag = <<"t", "w", "i", "s", "t">>
        THEN Some("ending_twist_count")
        ELSE IF tag = <<"p", "u", "n", "c", "h", "l", "i", "n", "e">>
        THEN Some("ending_punchline_count")
        ELSE IF tag = <<"h", "o", "p", "e", "f", "u", "l">>
        THEN Some("ending_hopeful_count")
        ELSE None

\* C30: a successful update_taste_profile call adds 1 to exactly one
\* ending counter of the stored record when the tag, trimmed and compared
\* without regard to case, is soft, twist, punchline or hopeful; with no
\* tag, or any other, the four ending counters stay as stored while
\* total_ratings still goes up.
C30_EndingCounterOnlyForKnownTag ==
    [][\A p \in Procs :
          UpdateSucceeds(p) =>
             LET old == StoredRow(txn[p].user)
                 new == Get(taste'[txn[p].user])
                 named == NamedEndingCounter(Get(txn[p].call).ending_pref)
             IN  /\ \A c \in EndingCounters :
                       new[c] = IF named = Some(c) THEN old[c] + 1
                                ELSE old[c]
                 /\ new.total_ratings = old.total_ratings + 1]_vars

-----------------------------------------------------------------------------
(* Properties of the critique decoding                                     *)

BraceFree(t) == \A i \in 1..Len(t) : t[i] \notin {"{", "}"}

\* Some "{" of the text is followed later by a "}".
HasBracePair(t) ==
    \E i \in 1..Len(t) : \E j \in (i + 1)..Len(t) : t[i] = "{" /\ t[j] = "}"

IsPrefixOf(a, b) == Len(a) <= Len(b) /\ a = SubSeq(b, 1, Len(a))

\* What an error message carries after its leading tag.
Carried(exc) == SubSeq(exc.msg, 2, Len(exc.msg))

\* The error carries a prefix of the raw text, of at most 200 characters.
CarriesBoundedPrefix(exc) ==
    /\ Len(Carried(exc)) <= 200
    /\ IsPrefixOf(Carried(exc), Raw)

\* C18: a valid Critique object wrapped in prose without braces decodes,
\* through the fallback extraction, to the Critique the bare object
\* decodes to.
C18_WrappedObjectDecodesAsBare ==
    (/\ decPc = "done"
     /\ BraceFree(decIn.prefix)
     /\ BraceFree(decIn.suffix)
     /\ ValidatesAsCritique(decIn.body))
       => /\ Get(decOut).ok
          /\ Get(decOut).critique = DecodeCritique(decIn.body).critique
          /\ Raw # Strip(decIn.body) => decVia = "fallback"

\* C18 witness: an object between prose on both sides was decoded by the
\* fallback.
C18_Witness ==
    /\ decPc = "done"
    /\ decIn.prefix = <<"p">>
    /\ decIn.suffix = <<"p">>
    /\ ValidatesAsCritique(decIn.body)
    /\ decVia = "fallback"
    /\ Get(decOut).ok

\* C19: critic output in which no "{" is followed later by a "}" fails to
\* decode, and the error message carries at most the first 200 characters
\* of the raw text.
C19_NoBracePairFailsWithPrefix ==
    (decPc = "done" /\ ~HasBracePair(Raw))
       => /\ ~Get(decOut).ok
          /\ CarriesBoundedPrefix(Get(decOut).exc)

\* C19 witness: a text longer than 200 characters, a "}" before a "{" and
\* no pair, failed with exactly its first 200 characters in the message.
C19_Witness ==
    /\ decPc = "done"
    /\ ~HasBracePair(Raw)
    /\ ~BraceFree(Raw)
    /\ Len(Raw) > 200
    /\ ~Get(decOut).ok
    /\ Carried(Get(decOut).exc) = SubSeq(Raw, 1, 200)

\* C20: whenever the decoding fails, also when a "{...}" block was found
\* and did not validate, the error carries only a prefix of at most 200
\* characters of the raw text.
C20_EveryFailureCarriesPrefixOnly ==
    (decPc = "done" /\ ~Get(decOut).ok)
       => CarriesBoundedPrefix(Get(decOut).exc)

-----------------------------------------------------------------------------
(* Properties of the two models of agent/schemas.py                        *)

\* A PoemRequest candidate was handed to the constructor with a line_count
\* and with its other fields acceptable.
LineCountCase ==
    /\ schIn.model = "PoemRequest"
    /\ schOut # None
    /\ schIn.cand.line_count # None
    /\ schIn.cand.theme # None
    /\ schIn.cand.reading_level \in {None} \cup {Some(l) : l \in ReadingLevel}

\* C22: PoemRequest construction succeeds for every integer line_count in
\* 2..60, keeping the value, and fails for every line_count outside; it
\* never clamps.
C22_LineCountValidatedNotClamped ==
    LineCountCase =>
       LET n == Get(schIn.cand.line_count)
       IN  /\ Get(schOut).ok <=> (n >= 2 /\ n <= 60)
           /\ Get(schOut).ok => Get(Get(schOut).value).line_count = n
           /\ ~Get(schOut).ok => Get(schOut).errors = {"line_count"}

\* C22 witness: line_count 61 was rejected.
C22_Witness ==
    /\ LineCountCase
    /\ schIn.cand.line_count = Some(61)
    /\ ~Get(schOut).ok

\* The three scores of a Critique value lie in 1..10.
ScoresInRange(c) ==
    \A f \in ScoreFields : c[f] >= 1 /\ c[f] <= 10

\* C23: constructing a Critique from a candidate succeeds if and only if
\* the three scores are all present and each lies in 1..10; a Critique
\* that was constructed has three in-range scores.
C23_CritiqueIffScoresInRange ==
    (schIn.model = "Critique" /\ schOut # None) =>
       /\ Get(schOut).ok <=>
             \A f \in ScoreFields :
                /\ schIn.cand[f] # None
                /\ Get(schIn.cand[f]) >= 1
                /\ Get(schIn.cand[f]) <= 10
       /\ Get(schOut).ok => ScoresInRange(Get(Get(schOut).value))

\* C23 witness: a candidate with scores 1, 10 and 11 was rejected for the
\* one score out of range.
C23_Witness ==
    /\ schIn.model = "Critique"
    /\ schOut # None
    /\ schIn.cand.imagery_score = Some(1)
    /\ schIn.cand.coherence_score = Some(10)
    /\ schIn.cand.originality_score = Some(11)
    /\ Get(schOut).errors = {"originality_score"}

\* C39: a successful update_taste_profile call for one user leaves the
\* record of every other user as it was; when the calling user has no
\* record the call creates it from the all-zero row, so that the record
\* holds the call alone and total_ratings = 1.
C39_OtherUsersKeptFirstUpdateCreates ==
    [][\A p \in Procs :
          UpdateSucceeds(p) =>
             LET u == txn[p].user
             IN  /\ \A v \in Users \ {u} : taste'[v] = taste[v]
                 /\ taste[u] = None =>
                       /\ taste'[u] # None
                       /\ Get(taste'[u]).total_ratings = 1
                       /\ AllStepsApplied(
                             [c \in DOMAIN Get(taste'[u]) |->
                                 IF c = "avg_line_count" THEN Rat(0, 1)
                                 ELSE 0],
                             Get(taste'[u]), Get(txn[p].call))]_vars

\* C39 witness: the first update of a user has returned while the other
\* user has a record.
C39_Witness ==
    /\ event.op = "update_taste_profile"
    /\ event.status = "ok"
    /\ hist[event.user].n = 1
    /\ taste[event.user] # None
    /\ Get(taste[event.user]).total_ratings = 1
    /\ \E v \in Users \ {event.user} : taste[v] # None

-----------------------------------------------------------------------------
(* Properties of the two backends side by side                             *)

\* C38: given the same update_taste_profile and get_taste_profile calls
\* from an empty store, the SQLite and the Postgres backend answer alike
\* after every call: the last call returned the same on both, and
\* get_taste_profile would return the same dict (total_ratings,
\* prefer_rhyme_score, avg_line_count, counters, guesses) for every user.
C38_BackendsAgree ==
    /\ pair.ret.sqlite = pair.ret.postgres
    /\ \A u \in Users :
          SqliteGet(pair.sqlite, u) = PostgresGet(pair.postgres, u)

\* Two updates of a user went into both stores and get_taste_profile
\* then answered.
C38_Witness ==
    /\ pair.call = "get_taste_profile"
    /\ pair.ret.postgres # None
    /\ Get(pair.ret.postgres).total_ratings = 2
    /\ Get(pair.ret.postgres).reading_counts.simple = 2

-----------------------------------------------------------------------------
(* Properties of the rating flow of the application                        *)

\* The ratings row the handler's add_rating call appends.
SubmittedRow == [user_id |-> USER_ID, rating |-> app.rating]

\* C40: in the rating flow the taste profile is updated only after the
\* rating record of the submission was appended: update_taste_profile
\* acts only when add_rating has returned and its row is the last of the
\* ratings table; when add_rating rejects a rating outside 1..5 no row is
\* inserted and the handler goes to its except clause, from where neither
\* update_taste_profile is called nor the version marked as rated; a
\* version is marked only after both calls returned.
C40_TasteUpdatedOnlyAfterRatingStored ==
    /\ [][(taste' # taste \/ app'.updated # app.updated) /\ app'.updated =>
             /\ app.added
             /\ ratings # <<>>
             /\ ratings[Len(ratings)] = SubmittedRow]_vars
    /\ [][app.pc = "add_rating" /\ ~RatingValid(app.rating) =>
             /\ ratings' = ratings
             /\ taste' = taste
             /\ app'.pc = "except"
             /\ ~app'.added
             /\ ~app'.updated]_vars
    /\ [][app.pc = "except" =>
             /\ ratings' = ratings
             /\ taste' = taste
             /\ app'.rated = app.rated
             /\ app'.pc = "form"]_vars
    /\ [][app'.rated # app.rated =>
             /\ app.added
             /\ app.updated
             /\ app'.rated = app.rated \cup {Get(app.label)}]_vars

\* C40 witness: a first submission was stored, counted and marked; a
\* second one, with a rating above 5, was rejected and its error shown.
C40_Witness ==
    /\ app.pc = "form"
    /\ app.shown = "error"
    /\ ~RatingValid(app.rating)
    /\ ~app.added
    /\ app.rated # {}
    /\ Get(app.label) \notin app.rated
    /\ Len(ratings) = 1
    /\ taste[USER_ID] # None
    /\ Get(taste[USER_ID]).total_ratings = 1

====
